---- MODULE Spec2Model ----
(***************************************************************************)
(* Model of the BNB-chain wallet plugin: the chain registry                *)
(* (WalletProvider), the bridge orchestrator (BridgeAction), the staking   *)
(* dispatcher (stakeAction.handler / StakeAction) and the transfer         *)
(* orchestrator (TransferAction).                                          *)
(*                                                                         *)
(* Every `await` of the source is a suspension point: the code up to an    *)
(* await is one atomic action that issues the network call, and the        *)
(* return of that call (with its success or its failure) is the next       *)
(* action.  A promise that is created but not awaited is a task of its own *)
(* with its own position (apc).                                            *)
(***************************************************************************)
EXTENDS Integers, Sequences, FiniteSets, TLC

(***************************************************************************)
(* bigint.  JavaScript bigints are unbounded; the values of the program    *)
(* (10^18 and more) exceed the integers of the model checker, so a bigint  *)
(* is a sign and a big-endian sequence of decimal digits without leading   *)
(* zeros (zero is <<0>>, never negative), exactly the decimal text that    *)
(* BigInt(string) reads and the `...n` literals spell.                     *)
(***************************************************************************)
RECURSIVE Strip(_)
Strip(s) ==
    IF Len(s) = 0 THEN <<0>>
    ELSE IF Len(s) > 1 /\ s[1] = 0 THEN Strip(Tail(s))
    ELSE s

Pad(s, n) == [i \in 1..n |-> IF i <= n - Len(s) THEN 0 ELSE s[i - (n - Len(s))]]

MaxOf(a, b) == IF a >= b THEN a ELSE b

\* magnitude comparison of two stripped digit sequences
MagLess(a, b) ==
    \/ Len(a) < Len(b)
    \/ /\ Len(a) = Len(b)
       /\ \E i \in 1..Len(a) : a[i] < b[i] /\ \A j \in 1..(i - 1) : a[j] = b[j]

RECURSIVE AddDigits(_, _, _, _)
AddDigits(a, b, i, carry) ==
    IF i = 0 THEN <<carry>>
    ELSE LET s == a[i] + b[i] + carry
         IN  Append(AddDigits(a, b, i - 1, s \div 10), s % 10)

RECURSIVE SubDigits(_, _, _, _)
SubDigits(a, b, i, borrow) ==
    IF i = 0 THEN <<>>
    ELSE LET d == a[i] - b[i] - borrow
         IN  Append(SubDigits(a, b, i - 1, IF d < 0 THEN 1 ELSE 0), (d + 10) % 10)

RECURSIVE MulDigits(_, _, _, _)
MulDigits(a, k, i, carry) ==
    IF i = 0 THEN (IF carry = 0 THEN <<>> ELSE MulDigits(<<carry>>, 1, 1, 0))
    ELSE LET p == a[i] * k + carry
         IN  Append(MulDigits(a, k, i - 1, p \div 10), p % 10)

MagAdd(a, b) ==
    LET n == MaxOf(Len(a), Len(b)) IN Strip(AddDigits(Pad(a, n), Pad(b, n), n, 0))

\* a - b for magnitudes with b <= a
MagSub(a, b) ==
    LET n == MaxOf(Len(a), Len(b)) IN Strip(SubDigits(Pad(a, n), Pad(b, n), n, 0))

Big(digits) == [neg |-> FALSE, mag |-> Strip(digits)]

BigZero == Big(<<0>>)

BigNorm(neg, mag) == [neg |-> neg /\ mag # <<0>>, mag |-> mag]

BigNeg(x) == BigNorm(~x.neg, x.mag)

BigAdd(x, y) ==
    IF x.neg = y.neg THEN BigNorm(x.neg, MagAdd(x.mag, y.mag))
    ELSE IF MagLess(x.mag, y.mag) THEN BigNorm(y.neg, MagSub(y.mag, x.mag))
    ELSE BigNorm(x.neg, MagSub(x.mag, y.mag))

BigSub(x, y) == BigAdd(x, BigNeg(y))

BigLess(x, y) == BigSub(x, y).neg

\* x * k for a natural number k that the model checker can hold
BigMulNat(x, k) == BigNorm(x.neg, Strip(MulDigits(x.mag, k, Len(x.mag), 0)))

(***************************************************************************)
(* Decimal strings and their conversion to base units.  A decimal string   *)
(* "i.f" is the pair of its digit sequences: "1" is Dec(<<1>>, <<>>) and   *)
(* "0.5" is Dec(<<0>>, <<5>>).  parseUnits is viem's: trailing zeros of    *)
(* the fraction are dropped, a fraction longer than `decimals` is rounded  *)
(* half up, a shorter one is padded with zeros, and the digits of integer  *)
(* and fraction together are read as one bigint.                           *)
(***************************************************************************)
Dec(int, frac) == [int |-> int, frac |-> frac]

RECURSIVE TrimTrailingZeros(_)
TrimTrailingZeros(f) ==
    IF Len(f) > 0 /\ f[Len(f)] = 0 THEN TrimTrailingZeros(SubSeq(f, 1, Len(f) - 1))
    ELSE f

PadEnd(f, n) == [i \in 1..MaxOf(n, Len(f)) |-> IF i <= Len(f) THEN f[i] ELSE 0]

PadStart(f, n) == IF Len(f) >= n THEN f ELSE Pad(f, n)

parseUnits(value, decimals) ==
    LET fraction == TrimTrailingZeros(value.frac)
        integer  == value.int
        up       == MagAdd(Strip(integer), <<1>>)
    IN  IF decimals = 0
        THEN IF Len(fraction) > 0 /\ fraction[1] >= 5 THEN Big(up) ELSE Big(integer)
        ELSE IF Len(fraction) > decimals
        THEN LET left    == SubSeq(fraction, 1, decimals - 1)
                 unit    == fraction[decimals]
                 right   == SubSeq(fraction, decimals + 1, Len(fraction))
                 rounded == unit + (IF right[1] >= 5 THEN 1 ELSE 0)
                 frac1   == IF rounded > 9
                            THEN PadStart(Append(MagAdd(Strip(left), <<1>>), 0), Len(left) + 1)
                            ELSE Append(left, rounded)
                 carry   == Len(frac1) > decimals
                 frac2   == IF carry THEN Tail(frac1) ELSE frac1
             IN  Big((IF carry THEN up ELSE integer) \o SubSeq(frac2, 1, decimals))
        ELSE Big(integer \o PadEnd(fraction, decimals))

\* viem: parseEther(value) = parseUnits(value, 18)
EtherDecimals == 18

parseEther(value) == parseUnits(value, EtherDecimals)

(***************************************************************************)
(* Values of the model.                                                    *)
(***************************************************************************)
\* an optional string that is absent (undefined, null or ""): falsy in the source
None == ""

\* an optional value that is not a string is the set of at most one element,
\* and this is the element
The(s) == CHOOSE v \in s : TRUE

SupportedChain == {"bsc", "bscTestnet", "opBNB", "opBNBTestnet"}

\* the account derived from the private key; getAddress() is its checksummed text
AccountAddress == "0xAbC1"

\* the same 20 bytes written in lower case, and another account
LowerCaseAccountAddress == "0xabc1"

OtherAddress == "0xDeF2"

\* ERC-20 contracts and what their decimals() returns
TokenA == "0xTokA"

TokenB == "0xTokB"

TokenAddresses == {TokenA, TokenB}

TokenDecimals == [t \in TokenAddresses |-> IF t = TokenA THEN 18 ELSE 6]

\* a token symbol the resolver may or may not know
TokenSymbol == "USDC"

Validator1 == "0xVal1"

Validator2 == "0xVal2"

TxHash == "0xhash"

(***************************************************************************)
(* Bounds of the model.                                                    *)
(***************************************************************************)
\* on-chain allowances are 0 .. MaxAllowanceSteps halves of 10^18 base units
MaxAllowanceSteps == 3

\* native balances are 0 .. MaxBalanceSteps times 5 * 10^13 wei
MaxBalanceSteps == 3

\* token balances are 0 .. MaxTokenBalanceSteps times 10^6 base units
MaxTokenBalanceSteps == 2

\* how many times checkTokenAllowance is called with the same arguments
MaxChecks == 2

Amounts == {Dec(<<1>>, <<>>), Dec(<<0>>, <<5>>)}

AllowanceChoices ==
    {BigMulNat(parseEther(Dec(<<0>>, <<5>>)), k) : k \in 0..MaxAllowanceSteps}

BalanceChoices ==
    {BigMulNat(Big(<<5, 0, 0, 0, 0, 0, 0, 0, 0, 0, 0, 0, 0, 0>>), k) : k \in 0..MaxBalanceSteps}

TokenBalanceChoices ==
    {BigMulNat(Big(<<1, 0, 0, 0, 0, 0, 0>>), k) : k \in 0..MaxTokenBalanceSteps}

(***************************************************************************)
(* Program constants.                                                      *)
(***************************************************************************)
L1_BRIDGE_ADDRESS == "0xF05F0e4362859c3331Cb9395CBC201E3Fa6757Ea"

L2_BRIDGE_ADDRESS == "0x4000698e3De52120DE28181BaACda82B21568416"

LEGACY_ERC20_ETH == "0xDeadDeAddeAddEAddeadDEaDDEAdDeaDDeAD0000"

\* 600000000000000n
L2_DELEGATION_FEE == Big(<<6, 0, 0, 0, 0, 0, 0, 0, 0, 0, 0, 0, 0, 0, 0>>)

StakeHub == "0x0000000000000000000000000000000000002002"

\* 3000000000n, 3 Gwei
BSC_DEFAULT_GAS_PRICE == Big(<<3, 0, 0, 0, 0, 0, 0, 0, 0, 0>>)

\* 21000n, the gas of a plain value transfer
TransferGas == 21000

\* the minimum gas limit argument of every bridge call
BridgeMinGasLimit == 1

(***************************************************************************)
(* The chain registry: WalletProvider.                                     *)
(***************************************************************************)
DefaultRpcUrl ==
    [bsc |-> "rpc.default.bsc", bscTestnet |-> "rpc.default.bscTestnet",
     opBNB |-> "rpc.default.opBNB", opBNBTestnet |-> "rpc.default.opBNBTestnet"]

CustomBscRpcUrl == "rpc.custom.bsc"

CustomOpBNBRpcUrl == "rpc.custom.opBNB"

\* viem/chains, as far as the plugin reads it
Catalog ==
    [n \in SupportedChain |->
        [name           |-> n,
         nativeCurrency |-> [symbol |-> IF n \in {"bsc", "opBNB"} THEN "BNB" ELSE "tBNB"],
         rpcUrls        |-> [default |-> DefaultRpcUrl[n], custom |-> None]]]

InCatalog(chainName) == chainName \in DOMAIN Catalog

\* defined where the name is in the catalog; the caller tests InCatalog first,
\* as the source throws "Invalid chain name" first
genChainFromName(chainName, customRpcUrl) ==
    IF customRpcUrl # None
    THEN [Catalog[chainName] EXCEPT !.rpcUrls.custom = customRpcUrl]
    ELSE Catalog[chainName]

getChainConfigs(chainName) == Catalog[chainName]

\* a plausible slip: the table replaced by the given map instead of merged with it
M_setChains(chs, given) == given

setChains(chs, given) ==
    [n \in (DOMAIN chs) \cup (DOMAIN given) |->
        IF n \in DOMAIN given THEN given[n] ELSE chs[n]]

addChain(chs, chain) == setChains(chs, chain)

\* switchChain throws when the name is neither registered nor in the catalog
switchChainThrows(chs, chainName) ==
    chainName \notin DOMAIN chs /\ ~InCatalog(chainName)

\* a plausible slip: the descriptor derived again on every switch
M_switchChain(chs, chainName, customRpcUrl) ==
    IF InCatalog(chainName)
    THEN addChain(chs, chainName :> genChainFromName(chainName, customRpcUrl))
    ELSE chs

\* the descriptor table after a switchChain that does not throw
switchChain(chs, chainName, customRpcUrl) ==
    IF chainName \notin DOMAIN chs
    THEN addChain(chs, chainName :> genChainFromName(chainName, customRpcUrl))
    ELSE chs

createHttpTransport(chs, chainName) ==
    LET chain == chs[chainName]
    IN  IF chain.rpcUrls.custom # None
        THEN chain.rpcUrls.custom
        ELSE chain.rpcUrls.default

getPublicClient(chs, chainName) ==
    [chain |-> chs[chainName], transport |-> createHttpTransport(chs, chainName),
     account |-> None]

getWalletClient(chs, chainName) ==
    [chain |-> chs[chainName], transport |-> createHttpTransport(chs, chainName),
     account |-> AccountAddress]

getAddress == AccountAddress

\* the settings a runtime may hold: a custom RPC URL for bsc, for opBNB, or none
RuntimeSettings ==
    {[n \in SupportedChain |->
        IF n = "bsc" THEN b ELSE IF n = "opBNB" THEN o ELSE None] :
        b \in {None, CustomBscRpcUrl}, o \in {None, CustomOpBNBRpcUrl}}

genChainsFromRuntime(settings) ==
    [n \in SupportedChain |-> genChainFromName(n, settings[n])]

\* a chain name viem/chains does not list
UnlistedChain == "myChain"

\* the names a caller may pass where the source expects a SupportedChain
ChainNames == SupportedChain \cup {UnlistedChain}

\* a descriptor a caller built by hand for the unlisted chain
UnlistedDescriptor ==
    [name           |-> UnlistedChain,
     nativeCurrency |-> [symbol |-> "MYC"],
     rpcUrls        |-> [default |-> "rpc.default.myChain", custom |-> None]]

\* the `chains` argument of the constructor with its keys in insertion order:
\* absent or empty (both leave the table and the pointer at their defaults), what
\* initWalletProvider builds, or a hand-built map of the unlisted chain alone
ConstructorArgs ==
    {[given |-> <<>>, keys |-> <<>>]} \cup
    {[given |-> genChainsFromRuntime(st),
      keys  |-> <<"bsc", "bscTestnet", "opBNB", "opBNBTestnet">>] : st \in RuntimeSettings}
    \cup {[given |-> UnlistedChain :> UnlistedDescriptor, keys |-> <<UnlistedChain>>]}

\* the arguments of addChain: one name with its descriptor
AddChainArgs ==
    {[name |-> "bsc", chain |-> genChainFromName("bsc", r)] : r \in {None, CustomBscRpcUrl}}
    \cup {[name |-> UnlistedChain, chain |-> UnlistedDescriptor]}

\* the arguments of a direct switchChain(chainName, customRpcUrl)
SwitchChainArgs ==
    {[name |-> "bsc", rpc |-> r] : r \in {None, CustomBscRpcUrl}}
    \cup {[name |-> n, rpc |-> r] : n \in {"opBNB", UnlistedChain},
                                   r \in {None, CustomOpBNBRpcUrl}}

\* the message of the TypeError of `chain.rpcUrls` when `this.chains[chainName]`
\* is undefined
UndefinedChainMessage == "Cannot read properties of undefined (reading 'rpcUrls')"

\* whether createHttpTransport throws: the name is not a key of `chains`
createHttpTransportThrows(chs, chainName) == chainName \notin DOMAIN chs

\* whether getChainConfigs throws "Invalid chain name"
getChainConfigsThrows(chainName) == ~InCatalog(chainName)

\* what a caller gets from getPublicClient, getWalletClient or getChainConfigs
Handed(op, chainName, status, msg, transport, chain) ==
    [op |-> op, name |-> chainName, status |-> status, msg |-> msg,
     transport |-> transport, chain |-> chain]

NothingHanded == Handed("none", None, "none", None, None, {})

ClientRequest(chs, op, chainName) ==
    IF op = "getChainConfigs"
    THEN IF getChainConfigsThrows(chainName)
         THEN Handed(op, chainName, "error", "Invalid chain name", None, {})
         ELSE Handed(op, chainName, "ok", None, None, {getChainConfigs(chainName)})
    ELSE IF createHttpTransportThrows(chs, chainName)
         THEN Handed(op, chainName, "error", UndefinedChainMessage, None, {})
         ELSE LET c == IF op = "getWalletClient" THEN getWalletClient(chs, chainName)
                       ELSE getPublicClient(chs, chainName)
              IN  Handed(op, chainName, "ok", None, c.transport, {c.chain})

ClientRequestOps == {"getPublicClient", "getWalletClient", "getChainConfigs"}

\* the registration a caller made last: through which method, under which name,
\* with which custom RPC endpoint
Registration(via, chainName, rpc) == [via |-> via, name |-> chainName, rpc |-> rpc]

NoRegistration == Registration("none", None, None)

(***************************************************************************)
(* Network calls.  Every call the program issues is appended to `calls`    *)
(* when it is issued: the task that issued it, its kind, the endpoint of   *)
(* the client, the contract (or recipient), the method, its arguments and  *)
(* the transaction options that were passed.                               *)
(***************************************************************************)
NoOpts == [value |-> {}, gas |-> {}, gasPrice |-> {}, chain |-> {}, data |-> None]

Call(task, kind, client, address, fn, args, opts) ==
    [task |-> task, kind |-> kind, rpc |-> client.transport, account |-> client.account,
     address |-> address, fn |-> fn, args |-> args, opts |-> opts]

\* a transaction submission, as opposed to a read or a simulation
IsSubmission(c) == c.kind \in {"write", "send"}

\* the native value a call carries: an absent value is no value
NativeValue(c) == IF c.opts.value = {} THEN BigZero ELSE The(c.opts.value)

Result(status, wrap, msg, to, val) ==
    [status |-> status, wrap |-> wrap, msg |-> msg, hash |-> IF status = "ok" THEN TxHash ELSE None,
     from |-> IF status = "ok" THEN getAddress ELSE None, to |-> to, value |-> val]

NoResult == Result("none", None, None, None, {})

Failure(wrap, msg) == Result("error", wrap, msg, None, {})

NoClient == [chain |-> None, transport |-> None, account |-> None]

NoCall == Call("none", "none", NoClient, None, None, <<>>, NoOpts)

\* a plausible slip: a client that looks its endpoint up in the table at each use
M_HeldClient(client, chs) ==
    [client EXCEPT !.chain = chs[client.chain.name],
                   !.transport = createHttpTransport(chs, client.chain.name)]

\* a client in use, whatever the table holds by then: createPublicClient and
\* createWalletClient were given the descriptor and the transport when the client
\* was obtained, and the client keeps them
HeldClient(client, chs) == client

(***************************************************************************)
(* State.                                                                  *)
(***************************************************************************)
VARIABLES
    chains,        \* WalletProvider.chains: registered name -> descriptor
    currentChain,  \* WalletProvider.currentChain
    req,           \* the request of the orchestrator call in progress
    pc,            \* where the orchestrator call is suspended
    apc,           \* where the promise of checkTokenAllowance is suspended
    value,         \* the local `value` of bridge() and of transfer()
    pending,       \* the transaction the call submits once its simulation returns
    apending,      \* the same for checkTokenAllowance
    allowance,     \* the local `allowance` of checkTokenAllowance, once read
    balance,       \* the local `balance` of transfer(), once read
    decimals,      \* the local `decimals` of transfer(), once read
    tokenAddress,  \* the local `tokenAddress` of transfer()
    calls,         \* the network calls issued for this request, in order
    replies,       \* what the chain returned to the reads of this request, in order
    result,        \* what the orchestrator call returned or threw
    registered,    \* the registration a caller made last and still has a note of
    handed,        \* what the provider handed out or threw last, since that registration
    entryChain,    \* WalletProvider.currentChain as the orchestrator call found it, kept
                   \* until the call returns or throws
    onChainAllowance, \* the token's allowance of the sender to the bridge contract on
                   \* the chain, once checkTokenAllowance has read it
    mempool,       \* the deltas of the allowance increases that were submitted and are
                   \* not yet included, oldest first
    walletClient,  \* the wallet client the orchestrator call obtained when it started
    publicClient   \* the public client of the call (and of checkTokenAllowance), once
                   \* obtained

vars == <<chains, currentChain, req, pc, apc, value, pending, apending, allowance,
          balance, decimals, tokenAddress, calls, replies, result, registered, handed,
          entryChain, onChainAllowance, mempool, walletClient, publicClient>>

registry == <<chains, currentChain>>

locals == <<value, pending, balance, decimals, tokenAddress>>

alocals == <<apending, allowance>>

api == <<registered, handed>>

ledger == <<onChainAllowance, mempool>>

clients == <<walletClient, publicClient>>

\* the calls of a task of the request, by kind
CallsOf(task, kinds) ==
    {i \in DOMAIN calls : calls[i].task = task /\ calls[i].kind \in kinds}

NoRequest == [op |-> "none"]

\* new WalletProvider(privateKey, chains)
Init ==
    /\ \E arg \in ConstructorArgs :
          /\ chains = setChains("bsc" :> Catalog["bsc"], arg.given)
          /\ currentChain = IF Len(arg.keys) > 0 THEN arg.keys[1] ELSE "bsc"
          /\ registered \in {NoRegistration} \cup
                {Registration("constructor", n, arg.given[n].rpcUrls.custom) :
                    n \in {m \in DOMAIN arg.given : arg.given[m].rpcUrls.custom # None}}
    /\ handed = NothingHanded
    /\ entryChain = None
    /\ onChainAllowance = {}
    /\ mempool = <<>>
    /\ walletClient = NoClient
    /\ publicClient = NoClient
    /\ req = NoRequest
    /\ pc = "idle"
    /\ apc = "none"
    /\ value = BigZero
    /\ pending = NoCall
    /\ apending = NoCall
    /\ allowance = {}
    /\ balance = {}
    /\ decimals = {}
    /\ tokenAddress = None
    /\ calls = <<>>
    /\ replies = <<>>
    /\ result = NoResult

\* the orchestrator call ends: it returns `r` or throws it
Finish(r) ==
    /\ pc' = "done"
    /\ result' = r
    /\ pending' = NoCall
    /\ entryChain' = None

(***************************************************************************)
(* BridgeAction.                                                           *)
(***************************************************************************)
BridgeRequests ==
    {[op |-> "bridge", fromChain |-> f, toChain |-> t, fromToken |-> ft,
      toToken |-> IF ft = None THEN None ELSE "0xTokL2", amount |-> a, toAddress |-> ta] :
        f \in ChainNames, t \in SupportedChain, ft \in {None} \cup TokenAddresses,
        a \in Amounts,
        ta \in {None, AccountAddress, LowerCaseAccountAddress, OtherAddress}}

selfBridge(params, fromAddress) ==
    params.toAddress = None \/ params.toAddress = fromAddress

nativeTokenBridge(params) == params.fromToken = None

\* a plausible slip: the direction decided by the source chain alone
M_IsL1ToL2(params) == params.fromChain = "bsc"

IsL1ToL2(params) == params.fromChain = "bsc" /\ params.toChain = "opBNB"

IsL2ToL1(params) == params.fromChain = "opBNB" /\ params.toChain = "bsc"

\* a plausible slip: the delegation fee folded into the amount before the call is built
M_BridgeAmount(params) == BigAdd(parseEther(params.amount), L2_DELEGATION_FEE)

\* the amount of a bridge request in base units: `let value = parseEther(params.amount)`
BridgeAmount(params) == parseEther(params.amount)

\* The branch of bridge() a request takes: the method, its arguments, the options of
\* the simulation and of the submission, the local `value` while the call is made
\* and the `value` that is returned.
L1Branch(params, fromAddress, amount, chain) ==
    LET txv == [NoOpts EXCEPT !.chain = {chain}, !.value = {amount}]
        tx0 == [NoOpts EXCEPT !.chain = {chain}]
    IN  IF selfBridge(params, fromAddress) /\ nativeTokenBridge(params)
        THEN [fn |-> "depositETH", args |-> <<BridgeMinGasLimit, "0x">>,
              sim |-> NoOpts, write |-> txv, value |-> amount, returned |-> amount]
        ELSE IF selfBridge(params, fromAddress) /\ ~nativeTokenBridge(params)
        THEN [fn |-> "depositERC20",
              args |-> <<params.fromToken, params.toToken, amount, BridgeMinGasLimit, "0x">>,
              sim |-> NoOpts, write |-> tx0, value |-> amount, returned |-> BigZero]
        ELSE IF ~selfBridge(params, fromAddress) /\ nativeTokenBridge(params)
        THEN [fn |-> "depositETHTo", args |-> <<params.toAddress, BridgeMinGasLimit, "0x">>,
              sim |-> NoOpts, write |-> txv, value |-> amount, returned |-> amount]
        ELSE [fn |-> "depositERC20To",
              args |-> <<params.fromToken, params.toToken, params.toAddress, amount,
                         BridgeMinGasLimit, "0x">>,
              sim |-> NoOpts, write |-> tx0, value |-> amount, returned |-> BigZero]

\* a plausible slip: the last withdrawal row harmonised with its siblings
M_L2RecipientTokenValue(amount) == BigAdd(amount, L2_DELEGATION_FEE)

\* `value = this.L2_DELEGATION_FEE` of the withdrawTo of an ERC-20 to a recipient
L2RecipientTokenValue(amount) == L2_DELEGATION_FEE

L2Branch(params, fromAddress, amount, chain) ==
    LET withFee == BigAdd(amount, L2_DELEGATION_FEE)
        feeOnly == L2RecipientTokenValue(amount)
        sim(v)  == [NoOpts EXCEPT !.value = {v}]
        tx(v)   == [NoOpts EXCEPT !.chain = {chain}, !.value = {v}]
    IN  IF selfBridge(params, fromAddress) /\ nativeTokenBridge(params)
        THEN [fn |-> "withdraw",
              args |-> <<LEGACY_ERC20_ETH, amount, BridgeMinGasLimit, "0x">>,
              sim |-> sim(withFee), write |-> tx(withFee), value |-> withFee,
              returned |-> withFee]
        ELSE IF selfBridge(params, fromAddress) /\ ~nativeTokenBridge(params)
        THEN [fn |-> "withdraw",
              args |-> <<params.fromToken, amount, BridgeMinGasLimit, "0x">>,
              sim |-> sim(withFee), write |-> tx(withFee), value |-> withFee,
              returned |-> withFee]
        ELSE IF ~selfBridge(params, fromAddress) /\ nativeTokenBridge(params)
        THEN [fn |-> "withdrawTo",
              args |-> <<LEGACY_ERC20_ETH, params.toAddress, amount, BridgeMinGasLimit, "0x">>,
              sim |-> sim(withFee), write |-> tx(withFee), value |-> withFee,
              returned |-> withFee]
        ELSE [fn |-> "withdrawTo",
              args |-> <<params.fromToken, params.toAddress, amount, BridgeMinGasLimit, "0x">>,
              sim |-> sim(feeOnly), write |-> tx(feeOnly),
              value |-> feeOnly, returned |-> feeOnly]

BridgeContract(params) == IF IsL1ToL2(params) THEN L1_BRIDGE_ADDRESS ELSE L2_BRIDGE_ADDRESS

BridgeBranch(params, fromAddress, amount, chain) ==
    IF IsL1ToL2(params) THEN L1Branch(params, fromAddress, amount, chain)
    ELSE L2Branch(params, fromAddress, amount, chain)

\* checkTokenAllowance up to its first await: the allowance read is issued
AllowanceReadCall(chs, chain, token, owner, spender) ==
    Call("allowance", "read", getPublicClient(chs, chain), token, "allowance",
         <<owner, spender>>, NoOpts)

\* `allowance < amount`
AllowanceInsufficient(allow, amount) == BigLess(allow, amount)

\* a plausible slip: a full re-approval instead of the difference
M_AllowanceDelta(allow, amount) == amount

\* the argument of increaseAllowance: `amount - allowance`
AllowanceDelta(allow, amount) == BigSub(amount, allow)

\* bridge(params) up to its first await.  switchChain, the two clients, the amount
\* and the direction test run without suspension; in a supported direction with an
\* ERC-20 the promise of checkTokenAllowance is created and NOT awaited, so it has
\* issued its read when bridge() goes on to issue the simulation of the bridge call.
BridgeStart(params) ==
    /\ UNCHANGED ledger
    /\ pc = "idle"
    /\ registered = NoRegistration /\ handed = NothingHanded
    /\ UNCHANGED api
    /\ replies' = <<>>
    /\ req' = params
    /\ balance' = {} /\ decimals' = {} /\ tokenAddress' = None
    /\ allowance' = {} /\ apending' = NoCall
    /\ IF switchChainThrows(chains, params.fromChain)
       THEN /\ Finish(Failure(None, "Invalid chain name"))
            /\ UNCHANGED <<registry, value, apc, clients>>
            /\ calls' = <<>>
       ELSE LET chs          == switchChain(chains, params.fromChain, None)
                fromAddress  == getAddress
                amount       == BridgeAmount(params)
            IN  /\ chains' = chs
                /\ currentChain' = params.fromChain
                /\ walletClient' = getWalletClient(chs, params.fromChain)
                /\ publicClient' = getPublicClient(chs, params.fromChain)
                /\ IF ~InCatalog(params.fromChain)
                   THEN /\ Finish(Failure(None, "Invalid chain name"))
                        /\ value' = amount /\ calls' = <<>> /\ apc' = "none"
                   ELSE IF ~(IsL1ToL2(params) \/ IsL2ToL1(params))
                   THEN /\ Finish(Failure(None, "Unsupported bridge direction"))
                        /\ value' = amount /\ calls' = <<>> /\ apc' = "none"
                   ELSE LET chain    == getChainConfigs(params.fromChain)
                            contract == BridgeContract(params)
                            br       == BridgeBranch(params, fromAddress, amount, chain)
                            check    == IF nativeTokenBridge(params) THEN <<>>
                                        ELSE <<AllowanceReadCall(chs, params.fromChain,
                                                 params.fromToken, fromAddress, contract)>>
                        IN  /\ apc' = IF nativeTokenBridge(params) THEN "none" ELSE "read"
                            /\ value' = br.value
                            /\ calls' = check \o
                                 <<Call("bridge", "simulate", publicClient', contract,
                                        br.fn, br.args, br.sim)>>
                            /\ pending' = Call("bridge", "write", walletClient', contract,
                                               br.fn, br.args, br.write)
                            /\ pc' = "bridge_sim"
                            /\ entryChain' = currentChain
                            /\ result' = NoResult

\* the simulation of the bridge call returns: the call is submitted
BridgeSimulated ==
    /\ UNCHANGED clients
    /\ UNCHANGED ledger
    /\ pc = "bridge_sim"
    /\ calls' = Append(calls, pending)
    /\ pc' = "bridge_write"
    /\ UNCHANGED <<registry, api, entryChain, replies, req, apc, locals, alocals, result>>

\* the simulation reverts: the catch block logs and rethrows
BridgeSimulateFails ==
    /\ UNCHANGED clients
    /\ UNCHANGED ledger
    /\ pc = "bridge_sim"
    /\ Finish(Failure(None, "simulation reverted"))
    /\ UNCHANGED <<registry, api, replies, req, apc, value, balance, decimals, tokenAddress, alocals, calls>>

\* the submission returns the hash: bridge() returns {hash, from, to, value}
BridgeSubmitted ==
    /\ UNCHANGED clients
    /\ UNCHANGED ledger
    /\ pc = "bridge_write"
    /\ LET br == BridgeBranch(req, getAddress, BridgeAmount(req),
                              getChainConfigs(req.fromChain))
       IN  /\ value' = br.returned
           /\ Finish(Result("ok", None, None, BridgeContract(req), {br.returned}))
    /\ UNCHANGED <<registry, api, replies, req, apc, balance, decimals, tokenAddress, alocals, calls>>

BridgeSubmitFails ==
    /\ UNCHANGED clients
    /\ UNCHANGED ledger
    /\ pc = "bridge_write"
    /\ Finish(Failure(None, "submission failed"))
    /\ UNCHANGED <<registry, api, replies, req, apc, value, balance, decimals, tokenAddress, alocals, calls>>

(***************************************************************************)
(* BridgeAction.checkTokenAllowance, after its first await.  Nothing       *)
(* awaits its promise: a failure is an unhandled rejection that bridge()   *)
(* never sees.                                                             *)
(***************************************************************************)
\* the allowance read returns `allow`
AllowanceRead(allow) ==
    /\ UNCHANGED clients
    /\ apc = "read"
    /\ replies' = Append(replies, [fn |-> "allowance", ret |-> allow])
    /\ onChainAllowance' = {allow}
    /\ UNCHANGED mempool
    /\ allowance' = {allow}
    /\ LET amount  == BridgeAmount(req)
           spender == BridgeContract(req)
           request == [fn |-> "increaseAllowance",
                       args |-> <<spender, AllowanceDelta(allow, amount)>>]
       IN  IF AllowanceInsufficient(allow, amount)
           THEN /\ calls' = Append(calls,
                      Call("allowance", "simulate", HeldClient(publicClient, chains),
                           req.fromToken, request.fn, request.args, NoOpts))
                /\ apending' = Call("allowance", "write",
                                    getWalletClient(chains, req.fromChain),
                                    req.fromToken, request.fn, request.args, NoOpts)
                /\ apc' = "sim"
           ELSE /\ apc' = "done"
                /\ UNCHANGED <<calls, apending>>
    /\ UNCHANGED <<registry, api, entryChain, req, pc, locals, result>>

AllowanceReadFails ==
    /\ UNCHANGED clients
    /\ UNCHANGED ledger
    /\ apc = "read"
    /\ apc' = "failed"
    /\ UNCHANGED <<registry, api, entryChain, replies, req, pc, locals, alocals, calls, result>>

\* the simulation of increaseAllowance returns its request, which is submitted
AllowanceSimulated ==
    /\ UNCHANGED clients
    /\ UNCHANGED ledger
    /\ apc = "sim"
    /\ calls' = Append(calls, apending)
    /\ apc' = "write"
    /\ UNCHANGED <<registry, api, entryChain, replies, req, pc, locals, alocals, result>>

AllowanceSimulateFails ==
    /\ UNCHANGED clients
    /\ UNCHANGED ledger
    /\ apc = "sim"
    /\ apc' = "failed"
    /\ UNCHANGED <<registry, api, entryChain, replies, req, pc, locals, alocals, calls, result>>

\* writeContract returns the hash: the increase is submitted, not yet included, and
\* checkTokenAllowance returns without waiting for its receipt
AllowanceSubmitted ==
    /\ UNCHANGED clients
    /\ apc = "write"
    /\ apc' = "done"
    /\ mempool' = Append(mempool, apending.args[2])
    /\ UNCHANGED onChainAllowance
    /\ UNCHANGED <<registry, api, entryChain, replies, req, pc, locals, alocals, calls, result>>

AllowanceSubmitFails ==
    /\ UNCHANGED clients
    /\ UNCHANGED ledger
    /\ apc = "write"
    /\ apc' = "failed"
    /\ UNCHANGED <<registry, api, entryChain, replies, req, pc, locals, alocals, calls, result>>

\* the chain includes the oldest submitted increase: increaseAllowance(spender,
\* delta) adds delta to the allowance the chain holds at that moment
AllowanceIncluded ==
    /\ UNCHANGED clients
    /\ mempool # <<>>
    /\ onChainAllowance' = {BigAdd(The(onChainAllowance), Head(mempool))}
    /\ mempool' = Tail(mempool)
    /\ UNCHANGED <<registry, api, entryChain, replies, req, pc, apc, locals, alocals, calls,
                   result>>

(***************************************************************************)
(* stakeAction.handler and StakeAction.                                    *)
(***************************************************************************)
\* a plausible slip: the check of the source left out
M_sourceAllowed(message) == TRUE

\* `message.content.source === "direct"` of the transfer and stake handlers
sourceAllowed(message) == message.source = "direct"

\* what a handler has of a message it refuses: the source, and nothing extracted
RefusedMessage(handler, message) ==
    [op |-> "refused", handler |-> handler, source |-> message.source]

\* the handler's callback with {error: ...} and its `return false`
Refusal(msg) == Result("refused", None, msg, None, {})

StakeActions == {"delegate", "undelegate", "redelegate", "claim"}

\* what the handler extracts from the message: every field may be missing
StakeContents ==
    {[op |-> "stake", source |-> src, action |-> act, toValidator |-> tv,
      fromValidator |-> fv, amount |-> am, delegateVotePower |-> dvp] :
        src \in {"direct", "other"}, act \in StakeActions, tv \in {None, Validator1},
        fv \in {None, Validator2}, am \in {{}} \cup {{a} : a \in Amounts},
        dvp \in {{}, {TRUE}, {FALSE}}}

\* a plausible slip: the default of delegateVotePower forgotten or inverted
M_paramOptions(content) ==
    [action |-> content.action, toValidator |-> content.toValidator,
     fromValidator |-> content.fromValidator, amount |-> content.amount,
     delegateVotePower |-> IF content.delegateVotePower = {} THEN FALSE
                           ELSE The(content.delegateVotePower)]

\* `const paramOptions: StakeParams = {...}` of the handler
paramOptions(content) ==
    [action |-> content.action, toValidator |-> content.toValidator,
     fromValidator |-> content.fromValidator, amount |-> content.amount,
     delegateVotePower |-> IF content.delegateVotePower = {} THEN TRUE
                           ELSE The(content.delegateVotePower)]

\* a plausible slip: claim left out of the fromValidator check
M_validateStakeParams(params) ==
    IF params.action \in {"delegate", "redelegate"} /\ params.toValidator = None
    THEN "toValidator is required"
    ELSE IF params.action \in {"undelegate", "redelegate"} /\ params.fromValidator = None
    THEN "fromValidator is required"
    ELSE None

\* the message of the error validateStakeParams throws, None when it returns
validateStakeParams(params) ==
    IF params.action \in {"delegate", "redelegate"} /\ params.toValidator = None
    THEN "toValidator is required"
    ELSE IF params.action \in {"undelegate", "redelegate", "claim"}
            /\ params.fromValidator = None
    THEN "fromValidator is required"
    ELSE None

\* parseEther(params.amount) throws when the amount is undefined or null
AmountThrows(params) == params.action # "claim" /\ params.amount = {}

\* a plausible slip: the caller's amount passed on to claim
M_doClaim(params) ==
    [fn |-> "claim",
     args |-> <<params.fromValidator,
                IF params.amount = {} THEN BigZero ELSE parseEther(The(params.amount))>>,
     opts |-> NoOpts]

doClaim(params) ==
    [fn |-> "claim", args |-> <<params.fromValidator, BigZero>>, opts |-> NoOpts]

doDelegate(params) ==
    [fn |-> "delegate", args |-> <<params.toValidator, params.delegateVotePower>>,
     opts |-> [NoOpts EXCEPT !.value = {parseEther(The(params.amount))}]]

doUndelegate(params) ==
    [fn |-> "undelegate",
     args |-> <<params.fromValidator, parseEther(The(params.amount))>>,
     opts |-> NoOpts]

doRedelegate(params) ==
    [fn |-> "redelegate",
     args |-> <<params.fromValidator, params.toValidator,
                parseEther(The(params.amount)), TRUE>>,
     opts |-> NoOpts]

\* the `switch (params.action)` of stake(): the contract call of the action
StakeDispatch(params) ==
    CASE params.action = "delegate"   -> doDelegate(params)
      [] params.action = "undelegate" -> doUndelegate(params)
      [] params.action = "redelegate" -> doRedelegate(params)
      [] params.action = "claim"      -> doClaim(params)

\* a plausible slip: the chain the registry points at when stake() is called
M_StakeChain == currentChain

\* the chain stake() selects and takes its clients for: "bsc", whatever the
\* registry points at
StakeChain == "bsc"

\* a plausible slip: the cause rethrown as it is
M_StakeFailed(msg) == Failure(None, msg)

\* the catch block of stake(): `throw new Error(`Stake failed: ${error.message}`)`
StakeFailed(msg) == Failure("Stake failed: ", msg)

\* the handler and stake(params) up to the first await
StakeStart(content) ==
    /\ UNCHANGED ledger
    /\ pc = "idle"
    /\ registered = NoRegistration /\ handed = NothingHanded
    /\ UNCHANGED api
    /\ replies' = <<>>
    /\ req' = IF sourceAllowed(content) THEN content ELSE RefusedMessage("stake", content)
    /\ balance' = {} /\ decimals' = {} /\ tokenAddress' = None
    /\ UNCHANGED <<apc, alocals, value, chains>>
    /\ LET params == paramOptions(content)
       IN  IF ~sourceAllowed(content)
           THEN /\ Finish(Refusal("Stake not allowed"))
                /\ calls' = <<>>
                /\ UNCHANGED <<currentChain, clients>>
           ELSE IF validateStakeParams(params) # None
           THEN /\ Finish(Failure(None, validateStakeParams(params)))
                /\ calls' = <<>>
                /\ UNCHANGED <<currentChain, clients>>
           ELSE /\ currentChain' = StakeChain
                /\ IF AmountThrows(params)
                   THEN /\ Finish(StakeFailed("not a valid decimal number"))
                        /\ calls' = <<>>
                        /\ UNCHANGED clients
                   ELSE LET c   == StakeDispatch(params)
                            wc  == getWalletClient(chains, StakeChain)
                            pub == getPublicClient(chains, StakeChain)
                        IN  /\ walletClient' = wc
                            /\ publicClient' = pub
                            /\ calls' = <<Call("stake", "simulate",
                                               [pub EXCEPT !.account = wc.account],
                                               StakeHub, c.fn, c.args, c.opts)>>
                            /\ pending' = Call("stake", "write", wc,
                                               StakeHub, c.fn, c.args, c.opts)
                            /\ pc' = "stake_sim"
                            /\ entryChain' = currentChain
                            /\ result' = NoResult

\* simulateContract returns `request`, which writeContract submits
StakeSimulated ==
    /\ UNCHANGED clients
    /\ UNCHANGED ledger
    /\ pc = "stake_sim"
    /\ calls' = Append(calls, pending)
    /\ pc' = "stake_write"
    /\ UNCHANGED <<registry, api, entryChain, replies, req, apc, locals, alocals, result>>

StakeSimulateFails ==
    /\ UNCHANGED clients
    /\ UNCHANGED ledger
    /\ pc = "stake_sim"
    /\ Finish(StakeFailed("simulation reverted"))
    /\ UNCHANGED <<registry, api, replies, req, apc, value, balance, decimals, tokenAddress, alocals, calls>>

StakeSubmitted ==
    /\ UNCHANGED clients
    /\ UNCHANGED ledger
    /\ pc = "stake_write"
    /\ Finish(Result("ok", None, None, StakeHub, {}))
    /\ UNCHANGED <<registry, api, replies, req, apc, value, balance, decimals, tokenAddress, alocals, calls>>

StakeSubmitFails ==
    /\ UNCHANGED clients
    /\ UNCHANGED ledger
    /\ pc = "stake_write"
    /\ Finish(StakeFailed("submission failed"))
    /\ UNCHANGED <<registry, api, replies, req, apc, value, balance, decimals, tokenAddress, alocals, calls>>

(***************************************************************************)
(* TransferAction.                                                         *)
(***************************************************************************)
TransferRequests ==
    {[op |-> "transfer", source |-> src, chain |-> c, token |-> tk, amount |-> am,
      toAddress |-> OtherAddress, data |-> None] :
        src \in {"direct", "other"}, c \in ChainNames,
        tk \in {None, "BNB", TokenSymbol} \cup TokenAddresses,
        am \in {{}} \cup {{a} : a \in Amounts}}

\* `params.token.startsWith("0x")`
StartsWith0x(token) == token \in TokenAddresses

\* `if (!params.data) params.data = "0x"`
DataOf(params) == IF params.data = None THEN "0x" ELSE params.data

\* a plausible slip: only a missing token taken as the native one
M_IsNativeTransfer(params, nativeToken) == params.token = None

\* `!params.token || params.token == nativeToken`
IsNativeTransfer(params, nativeToken) ==
    params.token = None \/ params.token = nativeToken

\* a plausible slip: the gas budget not reserved
M_SweepValue(bal) == bal

\* `balance - this.BSC_DEFAULT_GAS_PRICE * 21000n`
SweepValue(bal) == BigSub(bal, BigMulNat(BSC_DEFAULT_GAS_PRICE, TransferGas))

\* `parseUnits(params.amount, decimals)`
TokenAmount(amount, dec) == parseUnits(amount, dec)

\* the read of decimals() that opens the ERC-20 branch
DecimalsReadCall(public, token) ==
    Call("transfer", "read", public, token, "decimals", <<>>, NoOpts)

\* simulateContract of transfer(to, value), and the request it returns
TokenTransferCall(kind, wallet, public, params, token, val) ==
    LET client == IF kind = "write" THEN wallet
                  ELSE [public EXCEPT !.account = wallet.account]
    IN  Call("transfer", kind, client, token, "transfer", <<params.toAddress, val>>, NoOpts)

\* walletClient.sendTransaction of a native transfer
SendCall(wallet, params, opts) ==
    Call("transfer", "send", wallet, params.toAddress,
         None, <<>>,
         [opts EXCEPT !.data = DataOf(params), !.chain = {getChainConfigs(params.chain)}])

\* a plausible slip: any value taken for a sendable one
M_SendRejects(val) == FALSE

\* walletClient.sendTransaction rejects before anything is sent when `value` is
\* negative: a transaction's value is an unsigned quantity, and the wallet client
\* throws (IntegerOutOfRangeError) when it encodes the request
SendRejects(val) == val.neg

\* the handler and transfer(params) up to the first await
TransferStart(params) ==
    /\ UNCHANGED ledger
    /\ pc = "idle"
    /\ registered = NoRegistration /\ handed = NothingHanded
    /\ UNCHANGED api
    /\ replies' = <<>>
    /\ req' = IF sourceAllowed(params) THEN params ELSE RefusedMessage("transfer", params)
    /\ balance' = {} /\ decimals' = {}
    /\ UNCHANGED <<apc, alocals>>
    /\ IF ~sourceAllowed(params)
       THEN /\ Finish(Refusal("Transfer not allowed"))
            /\ calls' = <<>>
            /\ UNCHANGED <<registry, clients, value, tokenAddress>>
       ELSE IF switchChainThrows(chains, params.chain)
       THEN /\ Finish(Failure(None, "Invalid chain name"))
            /\ calls' = <<>>
            /\ UNCHANGED <<registry, clients, value, tokenAddress>>
       ELSE LET chs         == switchChain(chains, params.chain, None)
                nativeToken == chs[params.chain].nativeCurrency.symbol
            IN  /\ chains' = chs
                /\ currentChain' = params.chain
                /\ walletClient' = getWalletClient(chs, params.chain)
                /\ publicClient' =
                      IF IsNativeTransfer(params, nativeToken)
                      THEN (IF params.amount = {} THEN getPublicClient(chs, params.chain)
                            ELSE NoClient)
                      ELSE (IF StartsWith0x(params.token)
                            THEN getPublicClient(chs, params.chain) ELSE NoClient)
                /\ IF IsNativeTransfer(params, nativeToken)
                   THEN IF params.amount = {}
                        THEN /\ calls' = <<Call("transfer", "getBalance", publicClient',
                                                getAddress, "getBalance", <<>>, NoOpts)>>
                             /\ pc' = "transfer_balance"
                             /\ entryChain' = currentChain
                             /\ UNCHANGED <<value, pending, result, tokenAddress>>
                        ELSE IF ~InCatalog(params.chain)
                        THEN /\ Finish(Failure("Transfer failed: ", "Invalid chain name"))
                             /\ calls' = <<>>
                             /\ UNCHANGED <<value, tokenAddress>>
                        ELSE /\ value' = parseEther(The(params.amount))
                             /\ calls' = <<SendCall(walletClient', params,
                                  [NoOpts EXCEPT !.value = {parseEther(The(params.amount))}])>>
                             /\ pc' = "transfer_send"
                             /\ entryChain' = currentChain
                             /\ UNCHANGED <<pending, result, tokenAddress>>
                   ELSE IF ~StartsWith0x(params.token)
                   THEN /\ calls' = IF getChainConfigsThrows(params.chain) THEN <<>>
                                   ELSE <<Call("transfer", "getToken", NoClient, None,
                                               "getToken", <<params.chain, params.token>>,
                                               NoOpts)>>
                        /\ tokenAddress' = params.token
                        /\ pc' = "transfer_resolve"
                        /\ entryChain' = currentChain
                        /\ UNCHANGED <<value, pending, result>>
                   ELSE /\ tokenAddress' = params.token
                        /\ calls' = <<DecimalsReadCall(publicClient', params.token)>>
                        /\ pc' = "transfer_decimals"
                        /\ entryChain' = currentChain
                        /\ UNCHANGED <<value, pending, result>>

\* getTokenAddress resolved the symbol: decimals() of the token is read
TransferResolved(address) ==
    /\ UNCHANGED ledger
    /\ pc = "transfer_resolve"
    /\ ~getChainConfigsThrows(req.chain)
    /\ tokenAddress' = address
    /\ publicClient' = getPublicClient(chains, req.chain)
    /\ UNCHANGED walletClient
    /\ calls' = Append(calls, DecimalsReadCall(publicClient', address))
    /\ pc' = "transfer_decimals"
    /\ UNCHANGED <<registry, api, entryChain, replies, req, apc, value, pending, balance, decimals, alocals, result>>

\* getTokenAddress caught the failure (of getToken, or of getChainConfigs before
\* getToken was called) and returned null
TransferResolveFails ==
    /\ UNCHANGED clients
    /\ UNCHANGED ledger
    /\ pc = "transfer_resolve"
    /\ Finish(Failure("Transfer failed: ", "Unknown token symbol"))
    /\ UNCHANGED <<registry, api, replies, req, apc, value, balance, decimals, tokenAddress, alocals, calls>>

\* decimals() returned: the value is the balance to read, or the parsed amount
TransferDecimalsRead ==
    /\ UNCHANGED clients
    /\ UNCHANGED ledger
    /\ pc = "transfer_decimals"
    /\ replies' = Append(replies, [fn |-> "decimals", ret |-> TokenDecimals[tokenAddress]])
    /\ LET dec == TokenDecimals[tokenAddress]
       IN  /\ decimals' = {dec}
           /\ IF req.amount = {}
              THEN /\ calls' = Append(calls,
                         Call("transfer", "read", HeldClient(publicClient, chains),
                              tokenAddress, "balanceOf", <<getAddress>>, NoOpts))
                   /\ pc' = "transfer_balanceOf"
                   /\ UNCHANGED <<value, pending>>
              ELSE LET val == TokenAmount(The(req.amount), dec)
                   IN  /\ value' = val
                       /\ calls' = Append(calls,
                             TokenTransferCall("simulate", HeldClient(walletClient, chains),
                                               HeldClient(publicClient, chains), req,
                                               tokenAddress, val))
                       /\ pending' = TokenTransferCall("write",
                                                       HeldClient(walletClient, chains),
                                                       HeldClient(publicClient, chains),
                                                       req, tokenAddress, val)
                       /\ pc' = "transfer_sim"
    /\ UNCHANGED <<registry, api, entryChain, req, apc, balance, tokenAddress, alocals, result>>

\* a read of the ERC-20 branch fails
TransferReadFails ==
    /\ UNCHANGED clients
    /\ UNCHANGED ledger
    /\ pc \in {"transfer_decimals", "transfer_balanceOf"}
    /\ Finish(Failure("Transfer failed: ", "read failed"))
    /\ UNCHANGED <<registry, api, replies, req, apc, value, balance, decimals, tokenAddress, alocals, calls>>

\* balanceOf(sender) returned `bal`: it is the value of the transfer
TransferBalanceOfRead(bal) ==
    /\ UNCHANGED clients
    /\ UNCHANGED ledger
    /\ pc = "transfer_balanceOf"
    /\ replies' = Append(replies, [fn |-> "balanceOf", ret |-> bal])
    /\ value' = bal
    /\ calls' = Append(calls,
          TokenTransferCall("simulate", HeldClient(walletClient, chains),
                            HeldClient(publicClient, chains), req, tokenAddress, bal))
    /\ pending' = TokenTransferCall("write", HeldClient(walletClient, chains),
                                    HeldClient(publicClient, chains), req, tokenAddress, bal)
    /\ pc' = "transfer_sim"
    /\ UNCHANGED <<registry, api, entryChain, req, apc, balance, decimals, tokenAddress, alocals, result>>

TransferSimulated ==
    /\ UNCHANGED clients
    /\ UNCHANGED ledger
    /\ pc = "transfer_sim"
    /\ calls' = Append(calls, pending)
    /\ pc' = "transfer_write"
    /\ UNCHANGED <<registry, api, entryChain, replies, req, apc, locals, alocals, result>>

TransferSimulateFails ==
    /\ UNCHANGED clients
    /\ UNCHANGED ledger
    /\ pc = "transfer_sim"
    /\ Finish(Failure("Transfer failed: ", "simulation reverted"))
    /\ UNCHANGED <<registry, api, replies, req, apc, value, balance, decimals, tokenAddress, alocals, calls>>

\* getBalance returned `bal`: the sweep is sized and sent with pinned gas
TransferBalanceRead(bal) ==
    /\ UNCHANGED clients
    /\ UNCHANGED ledger
    /\ pc = "transfer_balance"
    /\ replies' = Append(replies, [fn |-> "getBalance", ret |-> bal])
    /\ balance' = {bal}
    /\ IF ~InCatalog(req.chain)
       THEN /\ Finish(Failure("Transfer failed: ", "Invalid chain name"))
            /\ UNCHANGED <<value, calls>>
       ELSE IF SendRejects(SweepValue(bal))
       THEN /\ Finish(Failure("Transfer failed: ", "value out of range"))
            /\ value' = SweepValue(bal)
            /\ UNCHANGED calls
       ELSE /\ value' = SweepValue(bal)
            /\ calls' = Append(calls, SendCall(HeldClient(walletClient, chains), req,
                  [NoOpts EXCEPT !.value = {SweepValue(bal)}, !.gas = {TransferGas},
                                 !.gasPrice = {BSC_DEFAULT_GAS_PRICE}]))
            /\ pc' = "transfer_send"
            /\ UNCHANGED entryChain
            /\ UNCHANGED <<pending, result>>
    /\ UNCHANGED <<registry, api, req, apc, decimals, tokenAddress, alocals>>

TransferBalanceFails ==
    /\ UNCHANGED clients
    /\ UNCHANGED ledger
    /\ pc = "transfer_balance"
    /\ Finish(Failure("Transfer failed: ", "read failed"))
    /\ UNCHANGED <<registry, api, replies, req, apc, value, balance, decimals, tokenAddress, alocals, calls>>

\* sendTransaction or writeContract returned the hash: transfer() returns
TransferSubmitted ==
    /\ UNCHANGED clients
    /\ UNCHANGED ledger
    /\ pc \in {"transfer_send", "transfer_write"}
    /\ Finish(Result("ok", None, None, req.toAddress, {value}))
    /\ UNCHANGED <<registry, api, replies, req, apc, value, balance, decimals, tokenAddress, alocals, calls>>

TransferSubmitFails ==
    /\ UNCHANGED clients
    /\ UNCHANGED ledger
    /\ pc \in {"transfer_send", "transfer_write"}
    /\ Finish(Failure("Transfer failed: ", "submission failed"))
    /\ UNCHANGED <<registry, api, replies, req, apc, value, balance, decimals, tokenAddress, alocals, calls>>

(***************************************************************************)
(* WalletProvider, called directly while no orchestrator call is running.  *)
(***************************************************************************)
\* addChain({[name]: chain})
AddChain(arg) ==
    /\ UNCHANGED clients
    /\ UNCHANGED ledger
    /\ pc = "idle"
    /\ chains' = addChain(chains, arg.name :> arg.chain)
    /\ registered' = Registration("addChain", arg.name, arg.chain.rpcUrls.custom)
    /\ handed' = NothingHanded
    /\ UNCHANGED <<currentChain, entryChain, req, pc, apc, locals, alocals, calls, replies,
                   result>>

\* switchChain(chainName, customRpcUrl)
SwitchChain(arg) ==
    /\ UNCHANGED clients
    /\ UNCHANGED ledger
    /\ pc = "idle"
    /\ IF switchChainThrows(chains, arg.name)
       THEN /\ handed' = Handed("switchChain", arg.name, "error", "Invalid chain name",
                                None, {})
            /\ UNCHANGED <<registry, registered>>
       ELSE /\ chains' = switchChain(chains, arg.name, arg.rpc)
            /\ currentChain' = arg.name
            /\ registered' = Registration("switchChain", arg.name, arg.rpc)
            /\ handed' = NothingHanded
    /\ UNCHANGED <<entryChain, req, pc, apc, locals, alocals, calls, replies, result>>

\* getPublicClient(chainName), getWalletClient(chainName) or getChainConfigs(chainName)
GetClient(op, chainName) ==
    /\ UNCHANGED clients
    /\ UNCHANGED ledger
    /\ pc = "idle"
    /\ handed' = ClientRequest(chains, op, chainName)
    /\ UNCHANGED <<registry, registered, entryChain, req, pc, apc, locals, alocals, calls,
                   replies, result>>

\* the caller drops what it was handed and its note of the registration; the
\* orchestrators are called from here
Discard ==
    /\ UNCHANGED clients
    /\ UNCHANGED ledger
    /\ pc = "idle"
    /\ registered # NoRegistration \/ handed # NothingHanded
    /\ registered' = NoRegistration
    /\ handed' = NothingHanded
    /\ UNCHANGED <<registry, entryChain, req, pc, apc, locals, alocals, calls, replies,
                   result>>

\* whether a task of the request is still suspended
AllowancePending == apc \in {"read", "sim", "write"}

\* the caller has the outcome and every task of the request has ended: the
\* locals are gone and the provider is free for the next request
Return ==
    /\ pc = "done"
    /\ ~AllowancePending
    /\ pc' = "idle"
    /\ apc' = "none"
    /\ req' = NoRequest
    /\ value' = BigZero /\ pending' = NoCall
    /\ balance' = {} /\ decimals' = {} /\ tokenAddress' = None
    /\ allowance' = {} /\ apending' = NoCall
    /\ calls' = <<>>
    /\ replies' = <<>>
    /\ result' = NoResult
    /\ onChainAllowance' = {} /\ mempool' = <<>>
    /\ walletClient' = NoClient /\ publicClient' = NoClient
    /\ UNCHANGED <<registry, api, entryChain>>

Next ==
    \/ \E params \in BridgeRequests : BridgeStart(params)
    \/ BridgeSimulated
    \/ BridgeSimulateFails
    \/ BridgeSubmitted
    \/ BridgeSubmitFails
    \/ \E allow \in AllowanceChoices : AllowanceRead(allow)
    \/ AllowanceReadFails
    \/ AllowanceSimulated
    \/ AllowanceSimulateFails
    \/ AllowanceSubmitted
    \/ AllowanceSubmitFails
    \/ AllowanceIncluded
    \/ \E content \in StakeContents : StakeStart(content)
    \/ StakeSimulated
    \/ StakeSimulateFails
    \/ StakeSubmitted
    \/ StakeSubmitFails
    \/ \E params \in TransferRequests : TransferStart(params)
    \/ \E address \in TokenAddresses : TransferResolved(address)
    \/ TransferResolveFails
    \/ TransferDecimalsRead
    \/ TransferReadFails
    \/ \E bal \in TokenBalanceChoices : TransferBalanceOfRead(bal)
    \/ TransferSimulated
    \/ TransferSimulateFails
    \/ \E bal \in BalanceChoices : TransferBalanceRead(bal)
    \/ TransferBalanceFails
    \/ TransferSubmitted
    \/ TransferSubmitFails
    \/ Return
    \/ \E arg \in AddChainArgs : AddChain(arg)
    \/ \E arg \in SwitchChainArgs : SwitchChain(arg)
    \/ \E op \in ClientRequestOps, chainName \in ChainNames : GetClient(op, chainName)
    \/ Discard

Spec == Init /\ [][Next]_vars

(***************************************************************************)
(* checkTokenAllowance called again and again with the same arguments on a *)
(* chain that holds the allowance: each read returns what the chain holds, *)
(* and a submitted increase changes it when it is included.                *)
(***************************************************************************)
\* the arguments of checkTokenAllowance, as an ERC-20 bridge request gives them
AllowanceRequests ==
    {p \in BridgeRequests : ~nativeTokenBridge(p) /\ (IsL1ToL2(p) \/ IsL2ToL1(p))}

\* a provider of initWalletProvider, idle, and a chain that holds some allowance
AllowanceInit ==
    /\ \E st \in RuntimeSettings :
          chains = setChains("bsc" :> Catalog["bsc"], genChainsFromRuntime(st))
    /\ currentChain = "bsc"
    /\ registered = NoRegistration
    /\ handed = NothingHanded
    /\ entryChain = None
    /\ onChainAllowance \in {{a} : a \in AllowanceChoices}
    /\ mempool = <<>>
    /\ walletClient = NoClient
    /\ publicClient = NoClient
    /\ req \in AllowanceRequests
    /\ pc = "idle"
    /\ apc = "none"
    /\ value = BigZero
    /\ pending = NoCall
    /\ apending = NoCall
    /\ allowance = {}
    /\ balance = {}
    /\ decimals = {}
    /\ tokenAddress = None
    /\ calls = <<>>
    /\ replies = <<>>
    /\ result = NoResult

\* checkTokenAllowance(chain, token, owner, spender, amount) is called once the
\* call before it has returned or thrown: its read is issued
CheckTokenAllowance ==
    /\ apc \in {"none", "done", "failed"}
    /\ Cardinality(CallsOf("allowance", {"read"})) < MaxChecks
    /\ calls' = Append(calls, AllowanceReadCall(chains, req.fromChain, req.fromToken,
                                                getAddress, BridgeContract(req)))
    /\ apc' = "read"
    /\ allowance' = {}
    /\ apending' = NoCall
    /\ publicClient' = getPublicClient(chains, req.fromChain)
    /\ UNCHANGED walletClient
    /\ UNCHANGED <<registry, api, entryChain, ledger, replies, req, pc, locals, result>>

AllowanceNext ==
    \/ CheckTokenAllowance
    \/ AllowanceRead(The(onChainAllowance))
    \/ AllowanceReadFails
    \/ AllowanceSimulated
    \/ AllowanceSimulateFails
    \/ AllowanceSubmitted
    \/ AllowanceSubmitFails
    \/ AllowanceIncluded

AllowanceSpec == AllowanceInit /\ [][AllowanceNext]_vars

(***************************************************************************)
(* The provider shared with another caller: addChain and switchChain run   *)
(* while an orchestrator call or checkTokenAllowance is suspended at an    *)
(* await.                                                                  *)
(***************************************************************************)
\* a call of the plugin is suspended
InFlight == pc \notin {"idle", "done"} \/ AllowancePending

\* addChain({[name]: chain}) between two steps of the suspended call
RegisterInFlight(arg) ==
    /\ InFlight
    /\ chains' = addChain(chains, arg.name :> arg.chain)
    /\ UNCHANGED <<currentChain, api, entryChain, ledger, clients, req, pc, apc, locals,
                   alocals, calls, replies, result>>

\* switchChain(chainName, customRpcUrl) between two steps of the suspended call
SwitchInFlight(arg) ==
    /\ InFlight
    /\ ~switchChainThrows(chains, arg.name)
    /\ chains' = switchChain(chains, arg.name, arg.rpc)
    /\ currentChain' = arg.name
    /\ UNCHANGED <<api, entryChain, ledger, clients, req, pc, apc, locals, alocals, calls,
                   replies, result>>

\* the requests made while the provider is shared: on the two mainnets
ConcurrentBridgeRequests ==
    {p \in BridgeRequests :
        /\ p.fromChain \in {"bsc", "opBNB"} /\ p.toChain \in {"bsc", "opBNB"}
        /\ p.amount = Dec(<<1>>, <<>>) /\ p.toAddress \in {None, OtherAddress}}

ConcurrentStakeContents ==
    {c \in StakeContents : c.source = "direct" /\ c.delegateVotePower = {}}

ConcurrentTransferRequests ==
    {p \in TransferRequests : p.source = "direct" /\ p.chain \in {"bsc", "opBNB"}}

\* what the other caller registers: bsc with and without a custom endpoint, and
\* the unlisted chain
ConcurrentAddChainArgs == AddChainArgs

\* what the other caller switches to
ConcurrentSwitchChainArgs == {a \in SwitchChainArgs : a.name \in {"bsc", "opBNB"}}

ConcurrentNext ==
    \/ \E params \in ConcurrentBridgeRequests : BridgeStart(params)
    \/ BridgeSimulated
    \/ BridgeSimulateFails
    \/ BridgeSubmitted
    \/ BridgeSubmitFails
    \/ \E allow \in AllowanceChoices : AllowanceRead(allow)
    \/ AllowanceReadFails
    \/ AllowanceSimulated
    \/ AllowanceSimulateFails
    \/ AllowanceSubmitted
    \/ AllowanceSubmitFails
    \/ \E content \in ConcurrentStakeContents : StakeStart(content)
    \/ StakeSimulated
    \/ StakeSimulateFails
    \/ StakeSubmitted
    \/ StakeSubmitFails
    \/ \E params \in ConcurrentTransferRequests : TransferStart(params)
    \/ \E address \in TokenAddresses : TransferResolved(address)
    \/ TransferResolveFails
    \/ TransferDecimalsRead
    \/ TransferReadFails
    \/ \E bal \in TokenBalanceChoices : TransferBalanceOfRead(bal)
    \/ TransferSimulated
    \/ TransferSimulateFails
    \/ \E bal \in BalanceChoices : TransferBalanceRead(bal)
    \/ TransferBalanceFails
    \/ TransferSubmitted
    \/ TransferSubmitFails
    \/ Return
    \/ \E arg \in ConcurrentAddChainArgs : RegisterInFlight(arg)
    \/ \E arg \in ConcurrentSwitchChainArgs : SwitchInFlight(arg)

ConcurrentSpec == Init /\ [][ConcurrentNext]_vars

(***************************************************************************)
(* Properties.                                                             *)
(***************************************************************************)
SupportedDirection(f, t) == <<f, t>> \in {<<"bsc", "opBNB">>, <<"opBNB", "bsc">>}

InBridge == req.op = "bridge"

\* the table of the eight bridge shapes
TableTarget(l1) == IF l1 THEN L1_BRIDGE_ADDRESS ELSE L2_BRIDGE_ADDRESS

TableMethod(l1, self, native) ==
    IF l1
    THEN IF self THEN (IF native THEN "depositETH" ELSE "depositERC20")
         ELSE (IF native THEN "depositETHTo" ELSE "depositERC20To")
    ELSE IF self THEN "withdraw" ELSE "withdrawTo"

TableValue(l1, self, native, amount) ==
    IF l1 THEN (IF native THEN amount ELSE BigZero)
    ELSE IF ~self /\ ~native THEN L2_DELEGATION_FEE
    ELSE BigAdd(amount, L2_DELEGATION_FEE)

\* C1: in a supported direction, every bridge transaction that bridge() submits is
\* the call of the table for (direction, selfBridge, nativeTokenBridge): the
\* direction's bridge contract, the row's method and the row's native value (the
\* amount being the request's amount in the base units bridge() computed); a
\* successful bridge() has submitted exactly one such call and returns from =
\* sender, to = that contract, value = that native value.
C1_BridgeShapeTable ==
    (InBridge /\ SupportedDirection(req.fromChain, req.toChain)) =>
        LET l1     == req.fromChain = "bsc"
            self   == selfBridge(req, getAddress)
            native == nativeTokenBridge(req)
            target == TableTarget(l1)
            method == TableMethod(l1, self, native)
            tv     == TableValue(l1, self, native, parseEther(req.amount))
            subs   == CallsOf("bridge", {"write", "send"})
        IN  /\ \A i \in subs :
                  /\ calls[i].address = target
                  /\ calls[i].fn = method
                  /\ NativeValue(calls[i]) = tv
            /\ Cardinality(subs) <= 1
            /\ pc = "bridge_write" => Cardinality(subs) = 1
            /\ result.status = "ok" =>
                  /\ Cardinality(subs) = 1
                  /\ result.from = AccountAddress
                  /\ result.to = target
                  /\ result.value = {tv}

\* the fee-only row has been submitted and returned
C1_Witness ==
    /\ InBridge /\ req.fromChain = "opBNB" /\ req.toChain = "bsc"
    /\ req.toAddress = OtherAddress /\ req.fromToken # None
    /\ result.status = "ok"
    /\ \E i \in CallsOf("bridge", {"write"}) :
          calls[i].fn = "withdrawTo" /\ NativeValue(calls[i]) = L2_DELEGATION_FEE

\* C2: in an ERC-20 bridge, no bridge call (simulation or submission) has been
\* issued while the allowance step is still suspended, and when bridge() has
\* returned no allowance work of the request is pending.
C2_AllowanceBeforeBridge ==
    (InBridge /\ req.fromToken # None) =>
        /\ CallsOf("bridge", {"simulate", "write", "send"}) # {} => ~AllowancePending
        /\ pc = "done" => ~AllowancePending

\* C3: checkTokenAllowance issues no increaseAllowance (simulation or submission)
\* before it has read the allowance nor when the allowance read is >= amount; when
\* it is < amount every increaseAllowance it issues is for the spender with the
\* argument amount - allowance, it submits at most one, and exactly one once it
\* has ended normally.
C3_AllowanceDelta ==
    InBridge =>
        LET amount == parseEther(req.amount)
            incs   == CallsOf("allowance", {"simulate", "write", "send"})
            subs   == CallsOf("allowance", {"write", "send"})
        IN  /\ allowance = {} => incs = {}
            /\ \A a \in allowance :
                 IF BigLess(a, amount)
                 THEN /\ \A i \in incs :
                            /\ calls[i].fn = "increaseAllowance"
                            /\ calls[i].address = req.fromToken
                            /\ calls[i].args =
                                 <<TableTarget(req.fromChain = "bsc"), BigSub(amount, a)>>
                      /\ Cardinality(subs) <= 1
                      /\ apc = "done" => Cardinality(subs) = 1
                 ELSE incs = {}

\* an increase was submitted on top of a non-zero allowance
C3_Witness ==
    /\ InBridge /\ apc = "done"
    /\ \E a \in allowance : a # BigZero /\ BigLess(a, parseEther(req.amount))
    /\ Cardinality(CallsOf("allowance", {"write"})) = 1

\* an allowance that suffices was read and nothing was submitted
C3_WitnessSufficient ==
    /\ InBridge /\ apc = "done"
    /\ \E a \in allowance : ~BigLess(a, parseEther(req.amount))

\* C4: a bridge request whose pair of chains (of the four chain names a request
\* may carry) is not one of the two supported directions has failed with the
\* unsupported-direction error and has issued no network call and started no
\* allowance step.
C4_UnsupportedDirection ==
    (InBridge /\ req.fromChain \in SupportedChain
        /\ ~SupportedDirection(req.fromChain, req.toChain)) =>
        /\ pc = "done"
        /\ result.status = "error"
        /\ result.msg = "Unsupported bridge direction"
        /\ calls = <<>>
        /\ apc = "none"

\* an ERC-20 request between a chain and itself was rejected
C4_Witness ==
    /\ InBridge /\ req.fromChain = "bsc" /\ req.toChain = "bsc"
    /\ req.fromToken # None /\ req.toAddress = OtherAddress
    /\ result.msg = "Unsupported bridge direction"

\* the amount argument of a bridge call of an ERC-20
AmountArg(c) ==
    CASE c.fn = "depositERC20"   -> c.args[3]
      [] c.fn = "depositERC20To" -> c.args[4]
      [] c.fn = "withdraw"       -> c.args[2]
      [] c.fn = "withdrawTo"     -> c.args[3]

InTransfer == req.op = "transfer"

NativeSymbol(chain) == IF chain \in {"bsc", "opBNB"} THEN "BNB" ELSE "tBNB"

NativeRequest == InTransfer /\ (req.token = None \/ req.token = NativeSymbol(req.chain))

TokenRequest == InTransfer /\ ~(req.token = None \/ req.token = NativeSymbol(req.chain))

\* C5: every decimal amount is converted with the decimals of its token: 18 for
\* the native currency; for an ERC-20 bridge the amount of the allowance check and
\* of the deposit/withdraw arguments is amount x 10^decimals(fromToken); for an
\* ERC-20 transfer it is amount x 10^decimals(token).
C5_AmountsUseTokenDecimals ==
    /\ (InBridge /\ req.fromToken # None) =>
          LET amount == parseUnits(req.amount, TokenDecimals[req.fromToken])
          IN  /\ \A i \in CallsOf("bridge", {"simulate", "write"}) :
                    AmountArg(calls[i]) = amount
              /\ \A a \in allowance :
                    \A i \in CallsOf("allowance", {"simulate", "write"}) :
                        calls[i].args[2] = BigSub(amount, a)
    /\ (InBridge /\ req.fromToken = None) =>
          \A i \in CallsOf("bridge", {"write"}) :
              calls[i].fn \in {"depositETH", "depositETHTo"} =>
                  NativeValue(calls[i]) = parseUnits(req.amount, 18)
    /\ (TokenRequest /\ req.amount # {}) =>
          \A i \in CallsOf("transfer", {"simulate", "write"}) :
              calls[i].args[2] =
                  parseUnits(The(req.amount), TokenDecimals[calls[i].address])
    /\ (NativeRequest /\ req.amount # {}) =>
          \A i \in CallsOf("transfer", {"send"}) :
              NativeValue(calls[i]) = parseUnits(The(req.amount), 18)

InStake == req.op = "stake"

NeedsToValidator == req.action \in {"delegate", "redelegate"}

NeedsFromValidator == req.action \in {"undelegate", "redelegate", "claim"}

NeedsAmount == req.action \in {"delegate", "undelegate", "redelegate"}

MissingValidators ==
    {f \in {"toValidator", "fromValidator"} :
        \/ f = "toValidator" /\ NeedsToValidator /\ req.toValidator = None
        \/ f = "fromValidator" /\ NeedsFromValidator /\ req.fromValidator = None}

RequiredMessage(f) ==
    CASE f = "toValidator"   -> "toValidator is required"
      [] f = "fromValidator" -> "fromValidator is required"
      [] f = "amount"        -> "amount is required"

\* C6: a delegate or redelegate request without toValidator, and an undelegate,
\* redelegate or claim request without fromValidator, has been rejected with the
\* unwrapped error that names a missing field, and no staking call has been
\* simulated or submitted.
C6_MissingValidatorRejected ==
    (InStake /\ MissingValidators # {}) =>
        /\ pc = "done"
        /\ result.status = "error"
        /\ result.wrap = None
        /\ result.msg \in {RequiredMessage(f) : f \in MissingValidators}
        /\ calls = <<>>

\* a claim without fromValidator was rejected
C6_Witness ==
    /\ InStake /\ req.action = "claim" /\ req.fromValidator = None
    /\ result.msg = "fromValidator is required"

\* C7: a delegate, undelegate or redelegate request without amount fails with the
\* missing-field validation error (unwrapped, naming a missing field) before any
\* network call, not with the StakeFailed dispatch error.
C7_MissingAmountRejected ==
    (InStake /\ NeedsAmount /\ req.amount = {}) =>
        /\ pc = "done"
        /\ result.status = "error"
        /\ result.wrap = None
        /\ result.msg \in {RequiredMessage(f) : f \in MissingValidators \cup {"amount"}}
        /\ calls = <<>>

\* C8: every call of a claim request is claim(fromValidator, 0), whatever amount
\* the caller supplied, and a claim that passed validation has issued it.
C8_ClaimAllSentinel ==
    (InStake /\ req.action = "claim") =>
        /\ \A i \in DOMAIN calls :
              /\ calls[i].fn = "claim"
              /\ calls[i].address = StakeHub
              /\ calls[i].args = <<req.fromValidator, BigZero>>
        /\ req.fromValidator # None => calls # <<>>

\* a claim that came with an amount was submitted with the sentinel
C8_Witness ==
    /\ InStake /\ req.action = "claim" /\ req.amount # {}
    /\ result.status = "ok"
    /\ \E i \in CallsOf("stake", {"write"}) : calls[i].args[2] = BigZero

\* C9: a valid delegate, undelegate or redelegate request issues exactly the
\* matching call on the staking contract, in its simulation and in its one
\* submission: delegate(toValidator, delegateVotePower) with value = amount, the
\* flag being true when the request omits it; undelegate(fromValidator, amount)
\* and redelegate(fromValidator, toValidator, amount, true) without value.
C9_StakeDispatch ==
    (InStake /\ NeedsAmount /\ MissingValidators = {} /\ req.amount # {}) =>
        LET amount == parseUnits(The(req.amount), 18)
            flag   == req.delegateVotePower = {} \/ req.delegateVotePower = {TRUE}
        IN  /\ calls # <<>>
            /\ Cardinality(CallsOf("stake", {"write", "send"})) <= 1
            /\ pc = "stake_write" => Cardinality(CallsOf("stake", {"write"})) = 1
            /\ result.status = "ok" => Cardinality(CallsOf("stake", {"write"})) = 1
            /\ \A i \in DOMAIN calls :
                  /\ calls[i].task = "stake"
                  /\ calls[i].address = StakeHub
                  /\ calls[i].fn = req.action
                  /\ req.action = "delegate" =>
                        /\ calls[i].args = <<req.toValidator, flag>>
                        /\ calls[i].opts.value = {amount}
                  /\ req.action = "undelegate" =>
                        /\ calls[i].args = <<req.fromValidator, amount>>
                        /\ calls[i].opts.value = {}
                  /\ req.action = "redelegate" =>
                        /\ calls[i].args =
                              <<req.fromValidator, req.toValidator, amount, TRUE>>
                        /\ calls[i].opts.value = {}

\* a delegate that omitted delegateVotePower was submitted with the flag true
C9_Witness ==
    /\ InStake /\ req.action = "delegate" /\ req.delegateVotePower = {}
    /\ result.status = "ok"
    /\ \E i \in CallsOf("stake", {"write"}) : calls[i].args[2] = TRUE

RepliesTo(fn) == {replies[i].ret : i \in {j \in DOMAIN replies : replies[j].fn = fn}}

\* C10: in a transfer without amount, a native transfer (token absent or the
\* chain's native symbol) is sent only once the balance B is read, with value
\* B - P * 21000, gas 21000 and gas price P; an ERC-20 transfer is simulated and
\* submitted only once balanceOf(sender) is read, with exactly that balance.
C10_TransferAllSizing ==
    /\ (NativeRequest /\ req.amount = {}) =>
          \A i \in CallsOf("transfer", {"simulate", "write", "send"}) :
              /\ calls[i].kind = "send"
              /\ \E b \in RepliesTo("getBalance") :
                    NativeValue(calls[i]) =
                        BigSub(b, BigMulNat(BSC_DEFAULT_GAS_PRICE, 21000))
              /\ calls[i].opts.gas = {21000}
              /\ calls[i].opts.gasPrice = {BSC_DEFAULT_GAS_PRICE}
    /\ (TokenRequest /\ req.amount = {}) =>
          \A i \in CallsOf("transfer", {"simulate", "write", "send"}) :
              /\ calls[i].fn = "transfer"
              /\ calls[i].args[1] = req.toAddress
              /\ \E b \in RepliesTo("balanceOf") : calls[i].args[2] = b
              /\ calls[i].opts.value = {}

\* a native sweep of a balance above the gas budget was sent
C10_Witness ==
    /\ NativeRequest /\ req.amount = {} /\ req.token = "BNB"
    /\ result.status = "ok"
    /\ \E i \in CallsOf("transfer", {"send"}) :
          /\ ~NativeValue(calls[i]).neg
          /\ NativeValue(calls[i]) # BigZero

\* an ERC-20 sweep of a positive balance was submitted
C10_WitnessToken ==
    /\ TokenRequest /\ req.amount = {}
    /\ result.status = "ok"
    /\ \E i \in CallsOf("transfer", {"write"}) : calls[i].args[2] # BigZero

\* the clients a caller may ask the provider for
ClientOps == {"getPublicClient", "getWalletClient"}

\* C11: a read or write client requested for a chain name after that name was
\* registered with a custom RPC endpoint (by the constructor, addChain or
\* switchChain(name, endpoint)) is bound to that endpoint.
C11_CustomRpcRoundTrip ==
    (registered.via # "none" /\ registered.rpc # None
        /\ handed.op \in ClientOps /\ handed.name = registered.name) =>
        /\ handed.status = "ok"
        /\ handed.transport = registered.rpc

\* C11, for the constructor and addChain alone
C11_RoundTripOfAddChain ==
    (registered.via \in {"constructor", "addChain"} /\ registered.rpc # None
        /\ handed.op \in ClientOps /\ handed.name = registered.name) =>
        /\ handed.status = "ok"
        /\ handed.transport = registered.rpc

\* C12: a request for a client or a descriptor fails exactly when the name is
\* neither registered nor in the catalog, and then with the unknown-chain error;
\* for a catalog name that is not registered it yields the catalog descriptor and
\* a client bound to it.
C12_UnknownChainExactly ==
    handed.op \in ClientRequestOps =>
        LET unknown == handed.name \notin DOMAIN chains /\ ~InCatalog(handed.name)
        IN  /\ handed.status = "error" <=> unknown
            /\ handed.status = "error" => handed.msg = "Invalid chain name"
            /\ (handed.status = "ok" /\ handed.name \notin DOMAIN chains) =>
                  /\ handed.chain = {Catalog[handed.name]}
                  /\ handed.op \in ClientOps =>
                        handed.transport = Catalog[handed.name].rpcUrls.default

\* the hex address in lower case; of the addresses of the model only the sender's
\* is written in two letter cases
LowerCaseOf(a) == IF a = AccountAddress THEN LowerCaseAccountAddress ELSE a

\* whether the two strings denote the same 20-byte address
SameAddress(a, b) == LowerCaseOf(a) = LowerCaseOf(b)

\* C13: in a supported direction the bridge call that is simulated and submitted
\* is the row of the table for: self-bridge iff toAddress is absent or denotes the
\* sender's address in whatever letter case, native iff fromToken is absent.
C13_SelfBridgeByAddress ==
    (InBridge /\ SupportedDirection(req.fromChain, req.toChain)) =>
        LET l1     == req.fromChain = "bsc"
            self   == req.toAddress = None \/ SameAddress(req.toAddress, getAddress)
            native == req.fromToken = None
        IN  \A i \in CallsOf("bridge", {"simulate", "write"}) :
                /\ calls[i].address = TableTarget(l1)
                /\ calls[i].fn = TableMethod(l1, self, native)

\* the chain a request names: the clients of its calls are requested for this name
ExplicitChain ==
    IF req.op = "bridge" THEN req.fromChain
    ELSE IF req.op = "transfer" THEN req.chain
    ELSE "bsc"

\* the calls that go through a client of the provider
ClientCalls == {i \in DOMAIN calls : calls[i].kind # "getToken"}

\* the contract or recipient the request alone determines for a call
ExpectedAddress(c) ==
    IF req.op = "stake" THEN StakeHub
    ELSE IF req.op = "bridge"
    THEN (IF c.task = "allowance" THEN req.fromToken
          ELSE TableTarget(req.fromChain = "bsc"))
    ELSE IF c.kind \in {"send", "getBalance"}
    THEN (IF c.kind = "send" THEN req.toAddress ELSE getAddress)
    ELSE tokenAddress

\* C14: whatever chain the registry pointed at when the orchestrator was called,
\* every network call of the request goes through the endpoint registered for the
\* chain the request names (bsc for a stake), to the contract or recipient the
\* request determines, and a chain descriptor attached to a transaction is the
\* catalog's for that name.
C14_CurrentChainNotUsed ==
    req.op \in {"bridge", "transfer", "stake"} =>
        \A i \in ClientCalls :
            /\ calls[i].rpc = createHttpTransport(chains, ExplicitChain)
            /\ calls[i].address = ExpectedAddress(calls[i])
            /\ \A d \in calls[i].opts.chain :
                  InCatalog(ExplicitChain) /\ d = Catalog[ExplicitChain]

\* a request was submitted on a chain while the registry pointed at another chain,
\* one with another endpoint, when the call was made
C14_Witness ==
    /\ entryChain # None /\ entryChain # ExplicitChain
    /\ createHttpTransport(chains, entryChain) # createHttpTransport(chains, ExplicitChain)
    /\ \E i \in ClientCalls : IsSubmission(calls[i])

\* whether the request is an ERC-20 bridge in a supported direction
TokenBridge ==
    InBridge /\ SupportedDirection(req.fromChain, req.toChain) /\ ~nativeTokenBridge(req)

\* C15: when the allowance step of an ERC-20 bridge has failed, bridge() does not
\* return a TransactionResult: once it has ended, it has ended with an error.
C15_AllowanceFailureSurfaced ==
    (TokenBridge /\ apc = "failed" /\ pc = "done") => result.status = "error"

\* the messages of the failures the spec calls validation errors
ValidationMessages ==
    {"Unsupported bridge direction", "Invalid chain name", "toValidator is required",
     "fromValidator is required"}

\* C16: a call of bridge() or stake() that ends with a validation error leaves the
\* descriptor table and the current-chain pointer as the call found them.
C16_ValidationLeavesRegistry ==
    [][(pc = "idle" /\ pc' = "done" /\ req'.op \in {"bridge", "stake"}
          /\ result'.status = "error" /\ result'.msg \in ValidationMessages)
        => UNCHANGED registry]_vars

\* C16 for the failures raised before switchChain has run: an unknown chain name
\* and a missing validator
C16_EarlyValidationLeavesRegistry ==
    [][(pc = "idle" /\ pc' = "done" /\ req'.op \in {"bridge", "stake"}
          /\ result'.status = "error"
          /\ \/ result'.msg \in {"toValidator is required", "fromValidator is required"}
             \/ result'.msg = "Invalid chain name" /\ req'.fromChain \notin DOMAIN chains)
        => UNCHANGED registry]_vars

\* whether an allowance increase of the request was submitted and its submission
\* returned
AllowanceIncreaseConfirmed ==
    apc = "done" /\ CallsOf("allowance", {"write"}) # {}

\* the text by which an error would tell its caller about the allowance increase
AllowanceReport(confirmed) ==
    IF confirmed THEN "allowance increase confirmed: " ELSE "no allowance increase: "

\* C17: when the bridge call of an ERC-20 bridge fails at simulation or submission,
\* the error the caller gets says whether an allowance increase was submitted and
\* confirmed.
C17_ErrorReportsAllowance ==
    (TokenBridge /\ pc = "done" /\ result.status = "error"
        /\ CallsOf("bridge", {"simulate"}) # {}) =>
        result.wrap = AllowanceReport(AllowanceIncreaseConfirmed)

\* the transactions of the request submitted so far
Submissions == {i \in DOMAIN calls : IsSubmission(calls[i])}

\* the most transactions a call of the orchestrator of the request may submit
MaxSubmissions ==
    IF InBridge /\ ~nativeTokenBridge(req) THEN 2 ELSE 1

\* the count part of C18
C18_SubmissionsBounded ==
    req.op \in {"bridge", "transfer", "stake"} => Cardinality(Submissions) <= MaxSubmissions

\* C18: a call submits at most its bound of transactions; in an ERC-20 bridge the
\* allowance increase comes before the bridge call and has returned when the bridge
\* call is submitted; and once the call has returned no transaction is submitted.
C18_BoundedSequentialSubmissions ==
    /\ [](C18_SubmissionsBounded)
    /\ []((TokenBridge /\ CallsOf("bridge", {"write"}) # {}) =>
            /\ apc \in {"done", "failed"}
            /\ \A i \in CallsOf("allowance", {"write"}), j \in CallsOf("bridge", {"write"}) :
                  i < j)
    /\ [][pc = "done" => Submissions' \subseteq Submissions]_vars

C20_BuiltFromRegisteredDescriptor ==
    (req.op \in {"bridge", "transfer", "stake"} /\ ExplicitChain \in DOMAIN chains) =>
        /\ \A i \in Submissions :
              /\ calls[i].rpc = createHttpTransport(chains, ExplicitChain)
              /\ calls[i].opts.chain \subseteq {chains[ExplicitChain]}
        /\ req.op = "transfer" =>
              ~(result.status = "error" /\ result.msg = "Invalid chain name")

\* the endpoint part of C20
C20_EndpointOfRegisteredDescriptor ==
    (req.op \in {"bridge", "transfer", "stake"} /\ ExplicitChain \in DOMAIN chains) =>
        \A i \in Submissions : calls[i].rpc = createHttpTransport(chains, ExplicitChain)

\* C20 with the descriptor attached left out: a transfer on a registered name does
\* not fail for lack of a catalog entry
C20_NoCatalogNeeded ==
    (req.op = "transfer" /\ ExplicitChain \in DOMAIN chains) =>
        ~(result.status = "error" /\ result.msg = "Invalid chain name")

\* the bridge simulations issued before call number i
BridgeSimulationsBefore(i) == {j \in CallsOf("bridge", {"simulate"}) : j < i}

\* C21: in a supported direction every bridge transaction that is submitted is the
\* call that was simulated before it (same contract, method, arguments and native
\* value), and once the simulation has failed no bridge transaction is submitted.
C21_SimulatedIsSubmitted ==
    (InBridge /\ SupportedDirection(req.fromChain, req.toChain)) =>
        /\ \A i \in CallsOf("bridge", {"write", "send"}) :
              \E j \in BridgeSimulationsBefore(i) :
                  /\ calls[j].address = calls[i].address
                  /\ calls[j].fn = calls[i].fn
                  /\ calls[j].args = calls[i].args
                  /\ NativeValue(calls[j]) = NativeValue(calls[i])
        /\ (result.status = "error" /\ result.msg = "simulation reverted") =>
              CallsOf("bridge", {"write", "send"}) = {}

\* the stake simulations issued before call number i
StakeSimulationsBefore(i) == {j \in CallsOf("stake", {"simulate"}) : j < i}

\* C22: every stake transaction that is submitted is the call whose simulation
\* returned before it (same contract, method, arguments, value and account) and at
\* most one is submitted; when the simulation reverts nothing is submitted, when the
\* submission fails nothing further is, and in both cases stake() throws the cause's
\* message wrapped as "Stake failed: "; the error of validateStakeParams is thrown
\* unwrapped, before any call.
C22_StakeSimulatedThenSubmitted ==
    InStake =>
        LET subs == CallsOf("stake", {"write", "send"})
        IN  /\ \A i \in subs :
                  \E j \in StakeSimulationsBefore(i) :
                      /\ calls[j].address = calls[i].address
                      /\ calls[j].fn = calls[i].fn
                      /\ calls[j].args = calls[i].args
                      /\ calls[j].opts = calls[i].opts
                      /\ calls[j].account = calls[i].account
            /\ Cardinality(subs) <= 1
            /\ (result.status = "error" /\ result.msg = "simulation reverted") =>
                  subs = {} /\ result.wrap = "Stake failed: "
            /\ (result.status = "error" /\ result.msg = "submission failed") =>
                  Cardinality(subs) = 1 /\ result.wrap = "Stake failed: "
            /\ (result.status = "error" /\ result.msg \in ValidationMessages) =>
                  calls = <<>> /\ result.wrap = None

\* a stake whose simulation reverted
C22_WitnessSimulation ==
    InStake /\ result.status = "error" /\ result.msg = "simulation reverted"

\* a stake whose submission failed after its simulation returned
C22_WitnessSubmission ==
    /\ InStake /\ result.status = "error" /\ result.msg = "submission failed"
    /\ CallsOf("stake", {"write"}) # {}

\* a stake that validateStakeParams rejected
C22_WitnessValidation ==
    InStake /\ result.status = "error" /\ result.msg \in ValidationMessages

\* the token of the transfer in progress is a symbol, not an address
SymbolRequest == InTransfer /\ req.token # None /\ req.token \notin TokenAddresses

\* the token of the transfer in progress is the native symbol of the request's chain
NativeSymbolRequest ==
    /\ InTransfer /\ req.chain \in DOMAIN chains
    /\ req.token = chains[req.chain].nativeCurrency.symbol

\* the calls of this request that reach the chain
ChainCalls ==
    {i \in DOMAIN calls : calls[i].kind \in {"read", "getBalance", "simulate", "write", "send"}}

ResolutionCalls == {i \in DOMAIN calls : calls[i].kind = "getToken"}

\* C24: a transfer of a symbol other than the chain's native one makes no contract
\* read, simulation or submission while the symbol is unresolved, and ends with
\* "Transfer failed: Unknown token symbol" when it cannot be resolved; a token equal
\* to the chain's native symbol is never resolved and only ever sent as a native
\* transfer to the recipient.
C24_UnresolvedSymbolStops ==
    /\ (SymbolRequest /\ req.chain \in DOMAIN chains /\ ~NativeSymbolRequest) =>
          /\ tokenAddress \notin TokenAddresses => ChainCalls = {}
          /\ (pc = "done" /\ tokenAddress \notin TokenAddresses) =>
                result = Failure("Transfer failed: ", "Unknown token symbol")
    /\ NativeSymbolRequest =>
          /\ ResolutionCalls = {}
          /\ \A i \in ChainCalls :
                \/ calls[i].kind = "getBalance"
                \/ calls[i].kind = "send" /\ calls[i].address = req.toAddress
                                          /\ calls[i].fn = None

\* a symbol that could not be resolved, after the lookup was made
C24_Witness ==
    /\ SymbolRequest /\ ~NativeSymbolRequest /\ ResolutionCalls # {}
    /\ result = Failure("Transfer failed: ", "Unknown token symbol")

\* the native symbol sent as a native transfer
C24_WitnessNative ==
    /\ NativeSymbolRequest /\ result.status = "ok"
    /\ \E i \in ChainCalls : calls[i].kind = "send"

\* a switchChain that threw for a name that is neither registered nor in the
\* catalog: a direct call, or the one bridge() and transfer() start with
SwitchChainThrew ==
    \/ /\ handed' # handed
       /\ handed'.op = "switchChain" /\ handed'.status = "error"
    \/ /\ pc = "idle" /\ pc' = "done"
       /\ result'.msg = "Invalid chain name"
       /\ \/ req'.op = "bridge" /\ req'.fromChain \notin DOMAIN chains
          \/ req'.op = "transfer" /\ req'.chain \notin DOMAIN chains

\* C26: in every reachable state the current-chain pointer names a registered
\* chain, so getCurrentChain() returns a descriptor, and bsc is registered; no step
\* removes an entry of the table; and a switchChain that throws for an unknown name
\* leaves both the pointer and the table as they were.
C26_PointerRegistered ==
    /\ [](currentChain \in DOMAIN chains /\ "bsc" \in DOMAIN chains)
    /\ [][/\ DOMAIN chains \subseteq DOMAIN chains'
          /\ SwitchChainThrew => UNCHANGED registry]_vars

\* a direct switchChain has thrown for the unlisted name after the table had grown
\* and the pointer had moved
C26_Witness ==
    /\ handed.op = "switchChain" /\ handed.status = "error"
    /\ handed.name \notin DOMAIN chains
    /\ currentChain = "opBNB" /\ Cardinality(DOMAIN chains) >= 2

\* a direct switchChain(chainName, customRpcUrl) has returned in this step
SwitchChainReturned ==
    /\ pc = "idle" /\ pc' = "idle"
    /\ registered'.via = "switchChain" /\ handed' = NothingHanded

\* C27: a switchChain(name, customRpcUrl) that returns points the registry at name;
\* when name was registered before the call the table is unchanged, whatever URL was
\* passed, and so is the endpoint of the clients of name; when it was not, the table
\* gains exactly the catalog's descriptor of name carrying that URL.
C27_SwitchChainMovesPointerOnly ==
    [][SwitchChainReturned =>
          LET n   == registered'.name
              rpc == registered'.rpc
          IN  /\ currentChain' = n
              /\ IF n \in DOMAIN chains
                 THEN /\ chains' = chains
                      /\ createHttpTransport(chains', n) = createHttpTransport(chains, n)
                 ELSE /\ DOMAIN chains' = DOMAIN chains \cup {n}
                      /\ \A m \in DOMAIN chains : chains'[m] = chains[m]
                      /\ chains'[n] = [Catalog[n] EXCEPT !.rpcUrls.custom = rpc]]_vars

\* switchChain("bsc", customRpcUrl) on the registered bsc, then a client of bsc: the
\* descriptor has no custom URL and the client is on the default endpoint
C27_Witness ==
    /\ registered = Registration("switchChain", "bsc", CustomBscRpcUrl)
    /\ chains["bsc"].rpcUrls.custom = None
    /\ handed.op = "getPublicClient" /\ handed.name = "bsc" /\ handed.status = "ok"
    /\ handed.transport = DefaultRpcUrl["bsc"]

\* switchChain("opBNB", customRpcUrl) on a table without opBNB: the URL is applied
C27_WitnessUnregistered ==
    /\ registered = Registration("switchChain", "opBNB", CustomOpBNBRpcUrl)
    /\ chains["opBNB"].rpcUrls.custom = CustomOpBNBRpcUrl
    /\ handed.op = "getPublicClient" /\ handed.name = "opBNB"
    /\ handed.transport = CustomOpBNBRpcUrl

\* the gas budget of the native sweep: P * 21000
SweepGasBudget == BigMulNat(BSC_DEFAULT_GAS_PRICE, 21000)

C29_FeeOnlyInValue ==
    (InBridge /\ SupportedDirection(req.fromChain, req.toChain)) =>
        LET amount == parseEther(req.amount)
        IN  \A i \in CallsOf("bridge", {"simulate", "write", "send"}) :
                IF req.fromChain = "opBNB"
                THEN /\ calls[i].fn \in {"withdraw", "withdrawTo"}
                     /\ AmountArg(calls[i]) = amount
                     /\ NativeValue(calls[i]) \in
                           {L2_DELEGATION_FEE, BigAdd(amount, L2_DELEGATION_FEE)}
                ELSE req.fromToken # None =>
                     /\ calls[i].fn \in {"depositERC20", "depositERC20To"}
                     /\ AmountArg(calls[i]) = amount
                     /\ calls[i].opts.value = {}

\* an ERC-20 withdrawal to the sender has been submitted: amount in the argument,
\* amount plus fee in the value
C29_Witness ==
    /\ InBridge /\ req.fromChain = "opBNB" /\ req.toChain = "bsc"
    /\ req.fromToken # None /\ req.toAddress = None
    /\ \E i \in CallsOf("bridge", {"write"}) :
          /\ calls[i].fn = "withdraw"
          /\ AmountArg(calls[i]) = parseEther(req.amount)
          /\ NativeValue(calls[i]) = BigAdd(parseEther(req.amount), L2_DELEGATION_FEE)

\* an ERC-20 deposit has been submitted with no native value
C29_WitnessDeposit ==
    /\ InBridge /\ req.fromChain = "bsc" /\ req.toChain = "opBNB" /\ req.fromToken # None
    /\ \E i \in CallsOf("bridge", {"write"}) : calls[i].opts.value = {}

\* the not-allowed message of each handler
NotAllowed(handler) ==
    IF handler = "transfer" THEN "Transfer not allowed" ELSE "Stake not allowed"

\* C30: a transfer or stake message whose source is not "direct" is refused: the
\* handler has reported its not-allowed error and returned false, nothing was
\* extracted from the message, no call was issued, and the step that refused it left
\* the registry and everything the provider handed out as they were.
C30_NonDirectRefused ==
    /\ [](req.op \in {"transfer", "stake", "refused"} =>
            (req.source # "direct" =>
                /\ req.op = "refused"
                /\ DOMAIN req = {"op", "handler", "source"}
                /\ pc = "done"
                /\ result = Refusal(NotAllowed(req.handler))
                /\ result.hash = None
                /\ calls = <<>>))
    /\ [][(pc = "idle" /\ req'.op = "refused") => UNCHANGED <<registry, api>>]_vars

\* a transfer message from another source has been refused while the registry
\* points at opBNB
C30_Witness ==
    /\ req.op = "refused" /\ req.handler = "transfer" /\ req.source = "other"
    /\ result = Refusal("Transfer not allowed") /\ calls = <<>>
    /\ currentChain = "opBNB"

\* the same for a stake message
C30_WitnessStake ==
    /\ req.op = "refused" /\ req.handler = "stake" /\ req.source = "other"
    /\ result = Refusal("Stake not allowed") /\ calls = <<>>

\* the amount checkTokenAllowance is called with
CheckedAmount == BridgeAmount(req)

\* a submitted increase is included in this step
IncreaseIncluded == Len(mempool') < Len(mempool)

\* the read of a call of checkTokenAllowance returns in this step, after an
\* earlier increase was included and with none waiting
ReadAfterInclusion ==
    /\ apc = "read" /\ apc' # "read" /\ Len(replies') > Len(replies)
    /\ replies # <<>> /\ onChainAllowance # {replies[1].ret}
    /\ mempool = <<>>

\* C25: whenever an allowance increase submitted by checkTokenAllowance is
\* included, the allowance the chain held before was below the amount and the
\* allowance it holds afterwards is exactly the amount; and a call repeated with the
\* same arguments after that inclusion reads an allowance that is sufficient and
\* submits nothing.
C25_IdempotentAllowance ==
    /\ [][IncreaseIncluded =>
            /\ BigLess(The(onChainAllowance), CheckedAmount)
            /\ onChainAllowance' = {CheckedAmount}]_vars
    /\ [][ReadAfterInclusion =>
            /\ apc' = "done"
            /\ calls' = calls]_vars

\* the calls of the request that go through the wallet client the call holds
ThroughWalletClient(c) ==
    c.task \in {"bridge", "stake", "transfer"} /\ c.kind \in {"write", "send"}

\* the calls that go through the public client the call holds
ThroughPublicClient(c) ==
    c.task \in {"bridge", "stake", "transfer", "allowance"}
        /\ c.kind \in {"read", "getBalance", "simulate"}

\* C23: while a call is in flight, whatever is registered, overwritten or switched
\* to, the clients it holds stay as they were obtained, and every call it issues
\* through them goes to the endpoint, and for the wallet client with the account,
\* that the client was constructed with.
C23_HeldClientsKept ==
    /\ [](\A i \in DOMAIN calls :
            /\ ThroughWalletClient(calls[i]) =>
                  /\ calls[i].rpc = walletClient.transport
                  /\ calls[i].account = walletClient.account
            /\ ThroughPublicClient(calls[i]) => calls[i].rpc = publicClient.transport)
    /\ [][pc' # "idle" =>
            /\ walletClient.transport # None => walletClient' = walletClient
            /\ publicClient.transport # None => publicClient' = publicClient]_vars

\* a sweep on bsc has read the balance and sent the transaction on the default
\* endpoint, and the table's bsc descriptor carries a custom endpoint by now
C23_Witness ==
    /\ req.op = "transfer" /\ req.chain = "bsc" /\ req.amount = {}
    /\ result.status = "ok" /\ Len(calls) = 2
    /\ calls[1].rpc = DefaultRpcUrl["bsc"] /\ calls[2].rpc = DefaultRpcUrl["bsc"]
    /\ calls[2].kind = "send"
    /\ createHttpTransport(chains, "bsc") = CustomBscRpcUrl

====
